---------------------------- MODULE Spec2Model ----------------------------
(***************************************************************************)
(* CookingAgent: the dialogue engine (ConversationEngine), the in-memory   *)
(* recipe KnowledgeBase, the MenuRecommender, the IntentExtractor and the  *)
(* incremental LLMBasedTagger, modelled as state machines.                 *)
(*                                                                         *)
(* Conventions.  A text (a JavaScript string that the code searches with   *)
(* includes/split) is a sequence of characters, each Chinese character     *)
(* written as its romanised name ("la" is the character for spicy).  A     *)
(* label (a taste, a category, a suitability flag) is an atomic string.  A *)
(* JavaScript object with optional keys is a function whose DOMAIN is the  *)
(* set of its own keys.  A preference value is <<x>> when defined and <<>> *)
(* when undefined, so that "key present with value undefined" and "key     *)
(* omitted" stay different, as they are for the spread operator.           *)
(***************************************************************************)
EXTENDS Integers, Sequences, FiniteSets, TLC

VARIABLES
    state,            \* ConversationEngine.state
    userPreferences,  \* ConversationEngine.userPreferences
    recommendedMenu,  \* ConversationEngine.recommendedMenu (dish names)
    confirmedMenu,    \* ConversationEngine.confirmedMenu (full records)
    lastTurn,         \* what the last call of processUserInput did
    recipesIndex,     \* KnowledgeBase.recipesIndex
    recipesData,      \* KnowledgeBase.recipesData
    isLoaded,         \* KnowledgeBase.isLoaded
    tagger,           \* one run of LLMBasedTagger.tagRecipesIncremental
    call,             \* the last direct call of a public method, with its inputs
    pending           \* the asynchronous calls that have started and not returned

engineVars == <<state, userPreferences, recommendedMenu, confirmedMenu, lastTurn>>
kbVars == <<recipesIndex, recipesData, isLoaded>>
vars == <<state, userPreferences, recommendedMenu, confirmedMenu, lastTurn,
          recipesIndex, recipesData, isLoaded, tagger, call, pending>>
otherVars == <<tagger, call, pending>>

-----------------------------------------------------------------------------
(* Texts and arrays *)

\* String.prototype.includes
Includes(t, s) ==
    \E i \in 0..(Len(t) - Len(s)) : SubSeq(t, i + 1, i + Len(s)) = s

\* String.prototype.toLowerCase, on the Latin letters the sample texts use
LowerChar(c) ==
    CASE c = "X" -> "x"
      [] c = "O" -> "o"
      [] OTHER -> c

ToLowerCase(t) == [i \in 1..Len(t) |-> LowerChar(t[i])]

\* Array.prototype.includes
ArrayIncludes(a, x) == \E i \in 1..Len(a) : a[i] = x

\* Array.prototype.map(f), Array.prototype.slice(0, n)
MapSeq(s, F(_)) == [i \in 1..Len(s) |-> F(s[i])]
Slice(s, n) == SubSeq(s, 1, IF n < Len(s) THEN n ELSE Len(s))

Range(s) == {s[i] : i \in 1..Len(s)}

\* recipes.map(r => r.dishName)
DishNames(recipes) == [i \in 1..Len(recipes) |-> recipes[i].dishName]

\* o.k || '' for an optional text field of an object
RawText(o, k) == IF k \in DOMAIN o THEN o[k] ELSE <<>>

\* o.k for an optional preference key: undefined (<<>>) when the key is omitted
Get(o, k) == IF k \in DOMAIN o THEN o[k] ELSE <<>>

-----------------------------------------------------------------------------
(* The enriched corpus the artifacts were built from *)

Recipe(name, cat, ingredients, steps, diff, taste, style, suit) ==
    [dishName |-> name,
     sourceFile |-> cat,
     contentHash |-> "h1",
     category |-> cat,
     rawContent |-> [ingredientsAndTools |-> ingredients, steps |-> steps],
     difficulty |-> diff,
     tags |-> [taste |-> taste, cookingStyle |-> style,
               season |-> <<"chun", "xia", "qiu", "dong">>, suitability |-> suit]]

HongShaoRou == <<"hong", "shao", "rou">>
ZhengYu == <<"zheng", "yu">>
QingCai == <<"qing", "cai">>
LaDouFu == <<"la", "dou", "fu">>
DanTang == <<"dan", "tang">>
MiFan == <<"mi", "fan">>
FoTiaoQiang == <<"fo", "tiao", "qiang">>
Ghost == <<"you", "ling">>

\* a quantities section long enough for the macro planning mode
LongText == [i \in 1..7000 |-> "x"]

Corpus ==
    << Recipe(HongShaoRou, "meat_dish", <<"zhu", "rou", "jiang", "you2">>, <<"dun">>,
              3, <<"xian2">>, <<"shao">>, <<>>),
       Recipe(ZhengYu, "aquatic", <<"yu", "X", "O", "jiang">>, <<"zheng">>,
              2, <<"xian">>, <<"zheng">>, <<"kid_friendly", "pregnancy_safe">>),
       Recipe(LaDouFu, "vegetable_dish", <<"dou", "fu", "jiao">>, <<"chao">>,
              2, <<"la">>, <<"chao">>, <<>>),
       Recipe(QingCai, "vegetable_dish", <<"qing", "cai">>, <<"chao">>,
              1, <<"xian">>, <<"chao">>, <<"kid_friendly">>),
       Recipe(DanTang, "soup", <<"dan">>, <<"zhu3">>,
              1, <<"xian">>, <<"zhu3">>, <<"kid_friendly">>),
       Recipe(MiFan, "staple", <<"mi">>, <<"zhu3">>,
              1, <<"xiang">>, <<"zhu3">>, <<"kid_friendly", "pregnancy_safe">>),
       [Recipe(FoTiaoQiang, "aquatic", <<"bao", "yu">>, <<"dun">>,
               5, <<"xian">>, <<"dun">>, <<"pregnancy_safe">>)
          EXCEPT !.rawContent =
             [ingredientsAndTools |-> <<"bao", "yu">>, steps |-> <<"dun">>,
              calculation |-> LongText]] >>

\* an index written last record first
BuildIndex_Reversed(E) ==
    [i \in 1..Len(E) |->
        [dishName |-> E[Len(E) + 1 - i].dishName,
         category |-> E[Len(E) + 1 - i].category,
         difficulty |-> E[Len(E) + 1 - i].difficulty,
         tags |-> E[Len(E) + 1 - i].tags]]

\* DatabaseBuilder.buildDatabases: the lightweight index, in input order
BuildIndex(E) ==
    [i \in 1..Len(E) |->
        [dishName |-> E[i].dishName, category |-> E[i].category,
         difficulty |-> E[i].difficulty, tags |-> E[i].tags]]

\* a data table that keeps the first record written under a name
BuildData_FirstWins(E) ==
    [n \in {E[i].dishName : i \in 1..Len(E)} |->
        E[CHOOSE i \in 1..Len(E) :
              /\ E[i].dishName = n
              /\ \A j \in 1..Len(E) : E[j].dishName = n => i <= j]]

\* DatabaseBuilder.buildDatabases: the data table, last write wins
BuildData(E) ==
    [n \in {E[i].dishName : i \in 1..Len(E)} |->
        E[CHOOSE i \in 1..Len(E) :
              /\ E[i].dishName = n
              /\ \A j \in 1..Len(E) : E[j].dishName = n => j <= i]]

EmptyData == [n \in {} |-> n]

\* the contents of recipes_index.json and recipes_data.json
ArtifactIndex == BuildIndex(Corpus)
ArtifactData == BuildData(Corpus)

-----------------------------------------------------------------------------
(* KnowledgeBase *)

\* a score that looks at the kid flag only
SuitabilityScore_KidOnly(entry, specialGroup) ==
    IF ArrayIncludes(specialGroup, "kid")
       /\ ArrayIncludes(entry.tags.suitability, "kid_friendly") THEN 2 ELSE 0

\* the comparator's score of searchRecipes
SuitabilityScore(entry, specialGroup) ==
    (IF ArrayIncludes(specialGroup, "kid")
        /\ ArrayIncludes(entry.tags.suitability, "kid_friendly") THEN 2 ELSE 0)
    + (IF ArrayIncludes(specialGroup, "pregnant")
        /\ ArrayIncludes(entry.tags.suitability, "pregnancy_safe") THEN 2 ELSE 0)

\* Array.prototype.sort((a, b) => score(b) - score(a)): stable, descending
RECURSIVE SortByScore(_, _)
SortByScore(s, specialGroup) ==
    IF Len(s) = 0 THEN <<>>
    ELSE LET init == SortByScore(SubSeq(s, 1, Len(s) - 1), specialGroup)
             x == s[Len(s)]
             k == Cardinality({i \in 1..Len(init) :
                     SuitabilityScore(init[i], specialGroup)
                        >= SuitabilityScore(x, specialGroup)})
         IN SubSeq(init, 1, k) \o <<x>> \o SubSeq(init, k + 1, Len(init))

\* preferences.tastePreferences?.length and the like
HasLength(v) == Len(v) = 1 /\ Len(v[1]) > 0

TasteMatches(entry, tastes) ==
    \E i \in 1..Len(tastes) : ArrayIncludes(entry.tags.taste, tastes[i])

ContainsExclusion(full, exclusions) ==
    \E i \in 1..Len(exclusions) :
        Includes(ToLowerCase(RawText(full.rawContent, "ingredientsAndTools")),
                 ToLowerCase(exclusions[i]))

\* a taste stage that filters even when nothing matches
TasteStage_HardFilter(preferences, index) ==
    LET tp == Get(preferences, "tastePreferences")
    IN IF HasLength(tp)
       THEN [candidates |-> SelectSeq(index, LAMBDA r : TasteMatches(r, tp[1])),
             aliased |-> FALSE]
       ELSE [candidates |-> index, aliased |-> TRUE]

\* the taste stage of searchRecipes: [candidates, aliased], where aliased says
\* that candidates is still the array this.recipesIndex itself
TasteStage(preferences, index) ==
    LET tp == Get(preferences, "tastePreferences")
        filteredByTaste ==
            SelectSeq(index, LAMBDA r : TasteMatches(r, tp[1]))
    IN IF HasLength(tp) /\ Len(filteredByTaste) > 0
       THEN [candidates |-> filteredByTaste, aliased |-> FALSE]
       ELSE [candidates |-> index, aliased |-> TRUE]

\* the special-group stage: sort() sorts the array in place
SortStage(preferences, st) ==
    LET sg == Get(preferences, "specialGroup")
    IN IF HasLength(sg)
       THEN [candidates |-> SortByScore(st.candidates, sg[1]),
             aliased |-> st.aliased, sorted |-> TRUE]
       ELSE [candidates |-> st.candidates, aliased |-> st.aliased,
             sorted |-> FALSE]

\* an exclusion stage that keeps every candidate when none would survive
ExclusionStage_Soft(preferences, candidates, data) ==
    LET ex == Get(preferences, "ingredientExclusions")
        kept == SelectSeq(candidates,
                    LAMBDA r : ~ContainsExclusion(data[r.dishName], ex[1]))
    IN IF HasLength(ex) /\ Len(kept) > 0 THEN kept ELSE candidates

\* the exclusion stage
ExclusionStage(preferences, candidates, data) ==
    LET ex == Get(preferences, "ingredientExclusions")
    IN IF HasLength(ex)
       THEN SelectSeq(candidates,
                LAMBDA r : ~ContainsExclusion(data[r.dishName], ex[1]))
       ELSE candidates

\* searchRecipes on a loaded knowledge base: the records returned and the
\* index array as the call leaves it
SearchRecipes(preferences, index, data) ==
    LET st == SortStage(preferences, TasteStage(preferences, index))
        kept == ExclusionStage(preferences, st.candidates, data)
    IN [result |-> MapSeq(kept, LAMBDA r : data[r.dishName]),
        index |-> IF st.sorted /\ st.aliased THEN st.candidates ELSE index]

\* a categorisation that puts the soups among the main dishes as well
GetRecommendedCandidates_SoupInMain(preferences, index, data) ==
    LET s == SearchRecipes(preferences, index, data)
        allCandidates == s.result
    IN [mainDishes |-> SelectSeq(allCandidates,
            LAMBDA r : r.category \in {"meat_dish", "aquatic", "soup"}),
        vegetableDishes |-> SelectSeq(allCandidates,
            LAMBDA r : r.category = "vegetable_dish"),
        soups |-> SelectSeq(allCandidates, LAMBDA r : r.category = "soup"),
        index |-> s.index]

\* getRecommendedCandidates on a loaded knowledge base
GetRecommendedCandidates(preferences, index, data) ==
    LET s == SearchRecipes(preferences, index, data)
        allCandidates == s.result
    IN [mainDishes |-> SelectSeq(allCandidates,
            LAMBDA r : r.category \in {"meat_dish", "aquatic"}),
        vegetableDishes |-> SelectSeq(allCandidates,
            LAMBDA r : r.category = "vegetable_dish"),
        soups |-> SelectSeq(allCandidates, LAMBDA r : r.category = "soup"),
        index |-> s.index]

\* how one attempt of loadData can end
\* (an index file that does not parse ends like a read that fails: nothing
\* has been assigned yet)
LoadOutcomes == {"ok", "read_fail", "data_parse_fail"}

\* an initialize() that answers a failed load with an empty, loaded knowledge base
Initialize_SilentEmpty(outcome, index, data, loaded) ==
    IF loaded
    THEN [threw |-> FALSE, index |-> index, data |-> data, loaded |-> TRUE]
    ELSE IF outcome = "ok"
         THEN [threw |-> FALSE, index |-> ArtifactIndex,
               data |-> ArtifactData, loaded |-> TRUE]
         ELSE [threw |-> FALSE, index |-> <<>>, data |-> EmptyData, loaded |-> TRUE]

\* initialize(): [threw, index, data, loaded] after the call
Initialize(outcome, index, data, loaded) ==
    IF loaded
    THEN [threw |-> FALSE, index |-> index, data |-> data, loaded |-> TRUE]
    ELSE CASE outcome = "ok" ->
                [threw |-> FALSE, index |-> ArtifactIndex,
                 data |-> ArtifactData, loaded |-> TRUE]
           [] outcome = "data_parse_fail" ->
                [threw |-> TRUE, index |-> ArtifactIndex,
                 data |-> data, loaded |-> FALSE]
           [] OTHER ->
                [threw |-> TRUE, index |-> index, data |-> data,
                 loaded |-> FALSE]

-----------------------------------------------------------------------------
(* IntentExtractor *)

PreferenceKeys == {"peopleCount", "tastePreferences", "ingredientExclusions",
                   "specialGroup", "maxCookingTimeMinutes"}

\* tasteMapping of mapTastePreferences: user terms to database taste tags
\* (qingdan, qingshuang, buyouni, dan, xianmei -> xian; xiangwei -> xiang)
TasteMapping(taste) ==
    CASE taste \in {"qingdan", "qingshuang", "buyouni", "dan", "xianmei"} -> "xian"
      [] taste = "xiangwei" -> "xiang"
      [] OTHER -> taste

\* Array.from(new Set(...)): first occurrences, in insertion order
RECURSIVE Dedupe(_)
Dedupe(s) ==
    IF Len(s) = 0 THEN <<>>
    ELSE LET init == Dedupe(SubSeq(s, 1, Len(s) - 1))
         IN IF ArrayIncludes(init, s[Len(s)]) THEN init
            ELSE Append(init, s[Len(s)])

\* mapTastePreferences: an object without a (defined) tastePreferences is
\* returned as it is
MapTastePreferences(preferences) ==
    IF Get(preferences, "tastePreferences") = <<>>
    THEN preferences
    ELSE [k \in DOMAIN preferences |->
            IF k = "tastePreferences"
            THEN << Dedupe(MapSeq(preferences[k][1], TasteMapping)) >>
            ELSE preferences[k]]

\* the catch block of extractIntent: every key present, every value undefined
FailedExtraction == [k \in PreferenceKeys |-> <<>>]

\* extractIntent: outcome is "fail" when generateObject throws, else the object
\* the collaborator returned
ExtractIntent(outcome) ==
    IF outcome.failed THEN FailedExtraction
    ELSE MapTastePreferences(outcome.object)

\* !preferences.peopleCount
LacksPeopleCount(preferences) ==
    LET pc == Get(preferences, "peopleCount")
    IN pc = <<>> \/ pc[1] = 0

\* a validation that asks for the people count only
ValidatePreferences_PeopleCountOnly(preferences) ==
    ~LacksPeopleCount(preferences)

\* validatePreferences(...).isValid
ValidatePreferences(preferences) ==
    /\ ~LacksPeopleCount(preferences)
    /\ ~(/\ ~HasLength(Get(preferences, "tastePreferences"))
         /\ ~HasLength(Get(preferences, "specialGroup")))

\* the phrases of interpretFollowUpRequest and handleQuestionInput
QueRen == <<"que", "ren4">>
HaoDe == <<"hao", "de">>
JiuZheXie == <<"jiu", "zhe", "xie">>
ChongXinKaiShi == <<"chong", "xin", "kai", "shi3">>
ChongXinGuiHua == <<"chong", "xin", "gui", "hua">>
ReplacePatterns == {<<"huan">>, <<"ti", "huan">>, <<"bu", "yao">>, <<"gai", "cheng">>}
ModifyPatterns == {<<"ren2", "shu">>, <<"kou", "wei4">>, <<"la">>, <<"tian">>,
                   <<"xian2">>, <<"qing1", "dan4">>, <<"bu", "chi">>, <<"ji", "kou">>}
QuestionPatterns == {<<"zen", "me", "zuo">>, <<"zen", "me">>, <<"wei2", "shen", "me">>,
                     <<"shen", "me", "shi2", "hou">>, <<"duo", "chang", "shi2", "jian1">>,
                     <<"zen", "yang">>, <<"?">>, <<"fullwidth_?">>}

\* interpretFollowUpRequest(...).action
InterpretFollowUpRequest(userInput) ==
    LET lowerInput == ToLowerCase(userInput)
    IN IF \/ Includes(lowerInput, QueRen) \/ Includes(lowerInput, HaoDe)
          \/ Includes(lowerInput, JiuZheXie)
       THEN "confirm_menu"
       ELSE IF \E p \in ReplacePatterns : Includes(lowerInput, p)
       THEN "replace_dish"
       ELSE IF \E p \in ModifyPatterns : Includes(lowerInput, p)
       THEN "modify_preferences"
       ELSE IF \E p \in QuestionPatterns : Includes(lowerInput, p)
       THEN "ask_question"
       ELSE "unknown"

\* the reset test of handleQuestionInput
IsResetRequest(userInput) ==
    LET lowerInput == ToLowerCase(userInput)
    IN Includes(lowerInput, ChongXinKaiShi) \/ Includes(lowerInput, ChongXinGuiHua)

-----------------------------------------------------------------------------
(* MenuRecommender *)

\* a composition that rounds the main dishes down as well
calculateMenuComposition_FloorBoth(peopleCount) ==
    LET totalDishes == peopleCount + 1
        vegetableDishes == totalDishes \div 2
        mainDishes == totalDishes \div 2
        soups == IF peopleCount > 4 THEN 1 ELSE 0
    IN [mainDishes |-> mainDishes, vegetableDishes |-> vegetableDishes,
        soups |-> soups, totalDishes |-> mainDishes + vegetableDishes + soups]

\* Math.floor(n / 2) and Math.ceil(n / 2) for n >= 0
calculateMenuComposition(peopleCount) ==
    LET totalDishes == peopleCount + 1
        vegetableDishes == totalDishes \div 2
        mainDishes == (totalDishes + 1) \div 2
        soups == IF peopleCount > 4 THEN 1 ELSE 0
    IN [mainDishes |-> mainDishes, vegetableDishes |-> vegetableDishes,
        soups |-> soups, totalDishes |-> mainDishes + vegetableDishes + soups]

\* preferences.peopleCount || 2
PeopleCountOrDefault(preferences) ==
    IF LacksPeopleCount(preferences) THEN 2
    ELSE Get(preferences, "peopleCount")[1]

generateFallbackMenu(candidateDishes, peopleCount) ==
    LET composition == calculateMenuComposition(peopleCount)
    IN MapSeq(Slice(candidateDishes.mainDishes, composition.mainDishes),
              LAMBDA d : [dishName |-> d.dishName,
                          recommendationReason |->
                             IF d.category = "meat_dish" THEN "fallback_meat"
                             ELSE "fallback_seafood"])
       \o MapSeq(Slice(candidateDishes.vegetableDishes, composition.vegetableDishes),
              LAMBDA d : [dishName |-> d.dishName,
                          recommendationReason |-> "fallback_vegetable"])
       \o (IF composition.soups > 0
           THEN MapSeq(Slice(candidateDishes.soups, composition.soups),
                  LAMBDA d : [dishName |-> d.dishName,
                              recommendationReason |-> "fallback_soup"])
           ELSE <<>>)

\* a recommendMenu that returns the collaborator's menu without validating it
recommendMenu_NoValidation(preferences, candidateDishes, outcome) ==
    LET menuComposition == calculateMenuComposition(PeopleCountOrDefault(preferences))
    IN IF outcome.failed
          \/ Len(outcome.menu) < menuComposition.totalDishes - 1
       THEN generateFallbackMenu(candidateDishes, PeopleCountOrDefault(preferences))
       ELSE outcome.menu

\* a recommendMenu that falls back as soon as one dish is missing
recommendMenu_StrictThreshold(preferences, candidateDishes, outcome) ==
    LET menuComposition == calculateMenuComposition(PeopleCountOrDefault(preferences))
        availableDishNames ==
            Range(DishNames(candidateDishes.mainDishes
                              \o candidateDishes.vegetableDishes
                              \o candidateDishes.soups))
        validatedMenu ==
            SelectSeq(outcome.menu, LAMBDA item : item.dishName \in availableDishNames)
    IN IF outcome.failed
          \/ Len(validatedMenu) < menuComposition.totalDishes
       THEN generateFallbackMenu(candidateDishes, PeopleCountOrDefault(preferences))
       ELSE validatedMenu

\* recommendMenu: outcome is the collaborator's failure or the menu it returned
recommendMenu(preferences, candidateDishes, outcome) ==
    LET menuComposition == calculateMenuComposition(PeopleCountOrDefault(preferences))
        availableDishNames ==
            Range(DishNames(candidateDishes.mainDishes
                              \o candidateDishes.vegetableDishes
                              \o candidateDishes.soups))
        validatedMenu ==
            SelectSeq(outcome.menu, LAMBDA item : item.dishName \in availableDishNames)
    IN IF outcome.failed
          \/ Len(validatedMenu) < menuComposition.totalDishes - 1
       THEN generateFallbackMenu(candidateDishes, PeopleCountOrDefault(preferences))
       ELSE validatedMenu

-----------------------------------------------------------------------------
(* WorkflowPlanner *)

MAX_CONTEXT_LENGTH == 8000
PromptTemplateLength == 1000

RECURSIVE SumLengths(_)
SumLengths(menu) ==
    IF Len(menu) = 0 THEN 0
    ELSE Len(menu[1].dishName)
         + Len(RawText(menu[1].rawContent, "ingredientsAndTools"))
         + Len(RawText(menu[1].rawContent, "calculation"))
         + Len(RawText(menu[1].rawContent, "steps"))
         + SumLengths(Tail(menu))

estimateContentLength(menu) == SumLengths(menu) + PromptTemplateLength

\* a planWorkflow without its catch block: no templated workflow
planWorkflow_NoFallback(menu, collaboratorFailed) ==
    LET mode == IF estimateContentLength(menu) < MAX_CONTEXT_LENGTH
                THEN "detailed" ELSE "macro"
    IN [mode |-> mode,
        text |-> IF collaboratorFailed THEN "threw" ELSE mode]

\* planWorkflow never throws: which text it returns, given whether the
\* planning collaborator failed
planWorkflow(menu, collaboratorFailed) ==
    LET mode == IF estimateContentLength(menu) < MAX_CONTEXT_LENGTH
                THEN "detailed" ELSE "macro"
    IN [mode |-> mode,
        text |-> IF collaboratorFailed THEN "fallback" ELSE mode]

-----------------------------------------------------------------------------
(* ConversationEngine *)

States == {"AWAITING_PREFERENCES", "RECOMMENDING_MENU", "GENERATING_SHOPPING_LIST",
           "PLANNING_WORKFLOW", "READY_FOR_QUESTIONS"}

EmptyPreferences == [k \in {} |-> <<>>]

\* updateUserPreferences: { ...this.userPreferences, ...preferences }
updateUserPreferences(held, preferences) ==
    [k \in (DOMAIN held) \cup (DOMAIN preferences) |->
        IF k \in DOMAIN preferences THEN preferences[k] ELSE held[k]]

\* the regular expression of the replace branch of handleMenuResponse:
\* (huandiao | tihuan | buyao) (.+?) (end | full-width comma | full stop)
ReplacePrefixes == {<<"huan", "diao">>, <<"ti", "huan">>, <<"bu", "yao">>}
ReplaceStops == {"dou_hao", "ju_hao"}

\* String.prototype.trim: " " is a space, "LF" a line feed
WhiteSpace == {" ", "LF"}

Trim(t) ==
    LET inked == {i \in 1..Len(t) : t[i] \notin WhiteSpace}
    IN IF inked = {} THEN <<>>
       ELSE SubSeq(t, CHOOSE i \in inked : \A j \in inked : i <= j,
                      CHOOSE i \in inked : \A j \in inked : j <= i)

Min(S) == CHOOSE x \in S : \A y \in S : x <= y

ReplaceMatch(userInput) ==
    LET starts == {i \in 1..(Len(userInput) - 2) :
                      SubSeq(userInput, i, i + 1) \in ReplacePrefixes}
    IN IF starts = {} THEN [matched |-> FALSE, dish |-> <<>>]
       ELSE LET i == Min(starts)
                j == Min({e \in (i + 2)..Len(userInput) :
                            e = Len(userInput) \/ userInput[e + 1] \in ReplaceStops})
            IN [matched |-> TRUE, dish |-> Trim(SubSeq(userInput, i + 2, j))]

\* replaceDish without a category, on a loaded knowledge base: the
\* alternatives and the index array as the search leaves it
replaceDish(oldDishName, confirmed, preferences, index, data) ==
    LET currentDishNames == DishNames(confirmed)
        currentDishNamesExcludingOld ==
            SelectSeq(currentDishNames, LAMBDA n : n # oldDishName)
        suggestions == GetRecommendedCandidates(preferences, index, data)
        alternatives ==
            SelectSeq(suggestions.mainDishes \o suggestions.vegetableDishes
                        \o suggestions.soups,
                LAMBDA r : ~ArrayIncludes(currentDishNamesExcludingOld, r.dishName))
    IN [alternatives |-> Slice(alternatives, 5), index |-> suggestions.index]

\* a confirmMenu that stops at the first dish it resolves
ResolveDishes_FirstOnly(dishNames, data) ==
    Slice(MapSeq(SelectSeq(dishNames, LAMBDA n : n \in DOMAIN data),
                 LAMBDA n : data[n]), 1)

\* the loop of confirmMenu on a loaded knowledge base: getDishByName || null
ResolveDishes(dishNames, data) ==
    MapSeq(SelectSeq(dishNames, LAMBDA n : n \in DOMAIN data), LAMBDA n : data[n])

\* the user lines the model draws a turn from
Utterances ==
    { ChongXinKaiShi, ChongXinGuiHua, QueRen,
      <<"huan", "diao">> \o HongShaoRou, <<"huan">>,
      <<"bu", "chi", "la">>,
      ZhengYu \o <<"zen", "me", "zuo">>,
      <<"san", "ge", "ren2">> }

\* handlePreferenceInput hands the line to the collaborator only: a reset
\* phrase or not is all a turn in AWAITING_PREFERENCES records of it
PreferenceUtterances == {ChongXinKaiShi, <<"san", "ge", "ren2">>}

\* what the intent-extraction collaborator can answer in the model: objects
\* of at most MaxExtractedKeys keys
MaxExtractedKeys == 2

ExtractedObjects ==
    LET full == [peopleCount : {<<0>>, <<3>>},
                 tastePreferences : {<< <<>> >>, << <<"qingdan">> >>},
                 specialGroup : {<< <<"kid">> >>},
                 ingredientExclusions : {<< << <<"x", "o">> >> >>}]
    IN {[k \in K |-> f[k]] :
            f \in full,
            K \in {S \in SUBSET (PreferenceKeys \ {"maxCookingTimeMinutes"}) :
                     Cardinality(S) <= MaxExtractedKeys}}

ExtractOutcomes ==
    {[failed |-> TRUE, object |-> EmptyPreferences]}
    \cup {[failed |-> FALSE, object |-> o] : o \in ExtractedObjects}

MenuOf(names) == MapSeq(names, LAMBDA n : [dishName |-> n, recommendationReason |-> "llm"])

\* what the menu collaborator can answer in the model
MenuOutcomes ==
    {[failed |-> TRUE, menu |-> <<>>]}
    \cup {[failed |-> FALSE, menu |-> MenuOf(m)] :
            m \in { <<HongShaoRou, ZhengYu, QingCai, LaDouFu>>,
                    <<FoTiaoQiang, Ghost, LaDouFu, QingCai>> }}

LoadChoices == IF isLoaded THEN {"not_called"} ELSE LoadOutcomes

NoTurn ==
    [from |-> "none", action |-> "none", isReset |-> FALSE, extractFailed |-> FALSE,
     threw |-> FALSE, returned |-> "none", trace |-> <<>>, plan |-> "none",
     alternatives |-> <<>>, dishToReplace |-> <<>>, planFailed |-> FALSE,
     presented |-> <<>>]

\* the record of a turn: from is this.state when processUserInput was called,
\* trace the values assigned to this.state during the turn, in order
Turn(action, userInput, returned, trace) ==
    [NoTurn EXCEPT !.from = state, !.action = action,
                   !.isReset = IsResetRequest(userInput),
                   !.returned = returned, !.trace = trace]

\* handlePreferenceInput, as processUserInput runs it
HandlePreferenceInput(userInput, action) ==
    \E outcome \in ExtractOutcomes :
        LET merged == updateUserPreferences(userPreferences, ExtractIntent(outcome))
            turn == [Turn(action, userInput, "AWAITING_PREFERENCES", <<>>)
                        EXCEPT !.extractFailed = outcome.failed]
        IN /\ userPreferences' = merged
           /\ confirmedMenu' = confirmedMenu
           /\ IF ~ValidatePreferences(merged)
              THEN /\ lastTurn' = turn
                   /\ UNCHANGED <<state, recommendedMenu, kbVars>>
              ELSE \E load \in LoadChoices :
                     LET kb == Initialize(load, recipesIndex, recipesData, isLoaded)
                     IN IF kb.threw
                        THEN \* caught by processUserInput, which returns this.state
                             /\ lastTurn' = [turn EXCEPT !.threw = TRUE,
                                                         !.returned = state]
                             /\ recipesIndex' = kb.index
                             /\ recipesData' = kb.data
                             /\ isLoaded' = kb.loaded
                             /\ UNCHANGED <<state, recommendedMenu>>
                        ELSE LET candidates ==
                                   GetRecommendedCandidates(merged, kb.index, kb.data)
                             IN \E answer \in MenuOutcomes :
                                  /\ recommendedMenu' =
                                        recommendMenu(merged, candidates, answer)
                                  /\ state' = "RECOMMENDING_MENU"
                                  /\ lastTurn' =
                                        [turn EXCEPT !.returned = "RECOMMENDING_MENU",
                                                     !.trace = <<"RECOMMENDING_MENU">>]
                                  /\ recipesIndex' = candidates.index
                                  /\ recipesData' = kb.data
                                  /\ isLoaded' = kb.loaded

\* processUserInput in AWAITING_PREFERENCES
PreferenceTurn ==
    /\ state = "AWAITING_PREFERENCES"
    /\ \E userInput \in PreferenceUtterances :
          HandlePreferenceInput(userInput, "preferences")
    /\ UNCHANGED otherVars

\* processUserInput in RECOMMENDING_MENU, classified modify_preferences
ModifyTurn ==
    /\ state = "RECOMMENDING_MENU"
    /\ \E userInput \in Utterances :
          /\ InterpretFollowUpRequest(userInput) = "modify_preferences"
          /\ HandlePreferenceInput(userInput, "modify_preferences")
    /\ UNCHANGED otherVars

\* a shopping-list step that leaves the state alone when the planner failed
handleShoppingListGeneration_StuckOnFailure(confirmed, collaboratorFailed) ==
    [plan |-> planWorkflow(confirmed, collaboratorFailed).text,
     state |-> IF collaboratorFailed THEN "GENERATING_SHOPPING_LIST"
               ELSE "READY_FOR_QUESTIONS"]

\* handleShoppingListGeneration: the plan text and the state it sets, in the
\* try block or, had planWorkflow thrown, in the catch block
handleShoppingListGeneration(confirmed, collaboratorFailed) ==
    [plan |-> planWorkflow(confirmed, collaboratorFailed).text,
     state |-> "READY_FOR_QUESTIONS"]

\* processUserInput in RECOMMENDING_MENU, classified confirm_menu:
\* confirmMenu, then handleShoppingListGeneration
ConfirmTurn ==
    /\ state = "RECOMMENDING_MENU"
    /\ \E userInput \in Utterances :
          /\ InterpretFollowUpRequest(userInput) = "confirm_menu"
          /\ \E load \in (IF Len(recommendedMenu) = 0 THEN {"not_called"} ELSE LoadChoices) :
               LET kb == IF Len(recommendedMenu) = 0
                         THEN [threw |-> FALSE, index |-> recipesIndex,
                               data |-> recipesData, loaded |-> isLoaded]
                         ELSE Initialize(load, recipesIndex, recipesData, isLoaded)
               IN IF kb.threw
                  THEN /\ lastTurn' = [Turn("confirm_menu", userInput, state, <<>>)
                                          EXCEPT !.threw = TRUE]
                       /\ recipesIndex' = kb.index
                       /\ recipesData' = kb.data
                       /\ isLoaded' = kb.loaded
                       /\ UNCHANGED <<state, userPreferences, recommendedMenu,
                                      confirmedMenu>>
                  ELSE \E collaboratorFailed \in BOOLEAN :
                         LET confirmed ==
                               ResolveDishes(DishNames(recommendedMenu), kb.data)
                             list == handleShoppingListGeneration(confirmed,
                                                                  collaboratorFailed)
                         IN /\ confirmedMenu' = confirmed
                            /\ state' = list.state
                            /\ lastTurn' =
                                 [Turn("confirm_menu", userInput, list.state,
                                       <<"GENERATING_SHOPPING_LIST", list.state>>)
                                     EXCEPT !.plan = list.plan,
                                            !.planFailed = collaboratorFailed]
                            /\ recipesIndex' = kb.index
                            /\ recipesData' = kb.data
                            /\ isLoaded' = kb.loaded
                            /\ UNCHANGED <<userPreferences, recommendedMenu>>
    /\ UNCHANGED otherVars

\* a reply that lists every alternative
PresentedAlternatives_All(alternatives) == alternatives

\* the alternatives the reply of handleMenuResponse lists: slice(0, 3)
PresentedAlternatives(alternatives) == Slice(alternatives, 3)

\* processUserInput in RECOMMENDING_MENU, classified replace_dish
ReplaceTurn ==
    /\ state = "RECOMMENDING_MENU"
    /\ \E userInput \in Utterances :
          /\ InterpretFollowUpRequest(userInput) = "replace_dish"
          /\ LET replaceMatch == ReplaceMatch(userInput)
                 turn == Turn("replace_dish", userInput, "RECOMMENDING_MENU", <<>>)
             IN IF ~replaceMatch.matched
                THEN /\ lastTurn' = turn
                     /\ UNCHANGED kbVars
                ELSE \E load \in LoadChoices :
                       LET kb == Initialize(load, recipesIndex, recipesData, isLoaded)
                           r == replaceDish(replaceMatch.dish, confirmedMenu,
                                            userPreferences, kb.index, kb.data)
                       IN IF kb.threw
                          THEN /\ lastTurn' = [turn EXCEPT !.threw = TRUE,
                                                           !.returned = state]
                               /\ recipesIndex' = kb.index
                               /\ recipesData' = kb.data
                               /\ isLoaded' = kb.loaded
                          ELSE /\ lastTurn' = [turn EXCEPT !.alternatives =
                                                     DishNames(r.alternatives),
                                                   !.dishToReplace =
                                                     replaceMatch.dish,
                                                   !.presented =
                                                     PresentedAlternatives(
                                                       DishNames(r.alternatives))]
                               /\ recipesIndex' = r.index
                               /\ recipesData' = kb.data
                               /\ isLoaded' = kb.loaded
    /\ UNCHANGED <<state, userPreferences, recommendedMenu, confirmedMenu, otherVars>>

\* processUserInput in RECOMMENDING_MENU, any other classification
UnrecognizedTurn ==
    /\ state = "RECOMMENDING_MENU"
    /\ \E userInput \in Utterances :
          /\ InterpretFollowUpRequest(userInput) \in {"ask_question", "unknown"}
          /\ lastTurn' = Turn(InterpretFollowUpRequest(userInput), userInput,
                              "RECOMMENDING_MENU", <<>>)
    /\ UNCHANGED <<state, userPreferences, recommendedMenu, confirmedMenu,
                   kbVars, otherVars>>

\* processUserInput in READY_FOR_QUESTIONS with a reset phrase: reset()
ResetTurn ==
    /\ state = "READY_FOR_QUESTIONS"
    /\ \E userInput \in Utterances :
          /\ IsResetRequest(userInput)
          /\ lastTurn' = Turn("reset", userInput, "AWAITING_PREFERENCES",
                              <<"AWAITING_PREFERENCES">>)
    /\ state' = "AWAITING_PREFERENCES"
    /\ userPreferences' = EmptyPreferences
    /\ recommendedMenu' = <<>>
    /\ confirmedMenu' = <<>>
    /\ UNCHANGED <<kbVars, otherVars>>

\* a question turn that forgets the confirmed set when no dish is named
QuestionTurn_DropsConfirmed ==
    /\ state = "READY_FOR_QUESTIONS"
    /\ \E userInput \in Utterances :
          /\ ~IsResetRequest(userInput)
          /\ LET named == \E i \in 1..Len(confirmedMenu) :
                             Includes(userInput, confirmedMenu[i].dishName)
             IN /\ lastTurn' = Turn(IF named THEN "answer_dish" ELSE "generic",
                                    userInput, "READY_FOR_QUESTIONS", <<>>)
                /\ confirmedMenu' = IF named THEN confirmedMenu ELSE <<>>
    /\ UNCHANGED <<state, userPreferences, recommendedMenu, kbVars, otherVars>>

\* processUserInput in READY_FOR_QUESTIONS without a reset phrase
QuestionTurn ==
    /\ state = "READY_FOR_QUESTIONS"
    /\ \E userInput \in Utterances :
          /\ ~IsResetRequest(userInput)
          /\ lastTurn' =
               Turn(IF \E i \in 1..Len(confirmedMenu) :
                          Includes(userInput, confirmedMenu[i].dishName)
                    THEN "answer_dish" ELSE "generic",
                    userInput, "READY_FOR_QUESTIONS", <<>>)
    /\ UNCHANGED <<state, userPreferences, recommendedMenu, confirmedMenu,
                   kbVars, otherVars>>

\* KnowledgeBase.initialize(), called by the command line before the session
InitializeKnowledgeBase ==
    /\ \E load \in LoadChoices :
          LET kb == Initialize(load, recipesIndex, recipesData, isLoaded)
          IN /\ recipesIndex' = kb.index
             /\ recipesData' = kb.data
             /\ isLoaded' = kb.loaded
    /\ UNCHANGED <<engineVars, otherVars>>

TaggerIdle == [pc |-> "idle"]
NoCall == [op |-> "none"]
\* no front end has started, no turn and no load is in flight
NonePending == [frontEnd |-> "none", isLoading |-> FALSE, turns |-> <<>>, loads |-> <<>>]

Init ==
    /\ state = "AWAITING_PREFERENCES"
    /\ userPreferences = EmptyPreferences
    /\ recommendedMenu = <<>>
    /\ confirmedMenu = <<>>
    /\ lastTurn = NoTurn
    /\ recipesIndex = <<>>
    /\ recipesData = EmptyData
    /\ isLoaded = FALSE
    /\ tagger = TaggerIdle
    /\ call = NoCall
    /\ pending = NonePending

\* one call of processUserInput, run to completion
processUserInput ==
    \/ PreferenceTurn
    \/ ModifyTurn
    \/ ConfirmTurn
    \/ ReplaceTurn
    \/ UnrecognizedTurn
    \/ ResetTurn
    \/ QuestionTurn

Next ==
    \/ processUserInput
    \/ InitializeKnowledgeBase

Spec == Init /\ [][Next]_vars

-----------------------------------------------------------------------------
(* Claims about the dialogue engine, checked under Spec *)

\* the claims' own reading of the preference record
Defined(preferences, k) == Get(preferences, k) # <<>>
NonEmptyList(preferences, k) ==
    Defined(preferences, k) /\ Get(preferences, k)[1] # <<>>
SamePreferences(p, q) == \A k \in PreferenceKeys : Get(p, k) = Get(q, k)
Cleared(preferences) == \A k \in PreferenceKeys : ~Defined(preferences, k)

\* a people count is present: defined and not zero (a count is positive)
HasPeopleCount(preferences) ==
    Defined(preferences, "peopleCount") /\ Get(preferences, "peopleCount")[1] > 0
HasTasteOrGroup(preferences) ==
    \/ NonEmptyList(preferences, "tastePreferences")
    \/ NonEmptyList(preferences, "specialGroup")
Sufficient(preferences) == HasPeopleCount(preferences) /\ HasTasteOrGroup(preferences)

\* the menu composed for the preferences of the turn is the one stored
ComposedMenuStored ==
    \E answer \in MenuOutcomes :
        recommendedMenu' =
            recommendMenu(userPreferences',
                GetRecommendedCandidates(userPreferences',
                    IF isLoaded THEN recipesIndex ELSE ArtifactIndex, recipesData'),
                answer)

C2_AsStated ==
    [][processUserInput /\ lastTurn'.isReset =>
         /\ state' = "AWAITING_PREFERENCES"
         /\ Cleared(userPreferences')
         /\ recommendedMenu' = <<>>]_vars

\* C3: a confirm utterance in RECOMMENDING_MENU sets the state to
\* GENERATING_SHOPPING_LIST and then to READY_FOR_QUESTIONS within the turn,
\* whichever plan (detailed, macro, fallback) was produced.
C3_ConfirmReachesReady ==
    [][ConfirmTurn =>
         /\ lastTurn'.plan \in {"detailed", "macro", "fallback"}
         /\ lastTurn'.trace = <<"GENERATING_SHOPPING_LIST", "READY_FOR_QUESTIONS">>
         /\ lastTurn'.returned = "READY_FOR_QUESTIONS"
         /\ state' = "READY_FOR_QUESTIONS"]_vars

\* a confirm turn planned in macro mode and ended in READY_FOR_QUESTIONS
C3_Witness ==
    /\ lastTurn.from = "RECOMMENDING_MENU"
    /\ lastTurn.action = "confirm_menu"
    /\ lastTurn.plan = "macro"
    /\ state = "READY_FOR_QUESTIONS"

\* C4 as stated: after a turn whose error was caught by processUserInput, the
\* dialogue state, the accumulated preferences, the proposed menu and the
\* confirmed set equal their values before the turn.
C4_AsStated ==
    [][processUserInput /\ lastTurn'.threw =>
         /\ state' = state
         /\ SamePreferences(userPreferences', userPreferences)
         /\ recommendedMenu' = recommendedMenu
         /\ confirmedMenu' = confirmedMenu]_vars

\* C5 as stated: when intent extraction fails during a turn, every field of
\* the accumulated preferences keeps the value it had before the turn.
C5_AsStated ==
    [][processUserInput /\ lastTurn'.extractFailed =>
         SamePreferences(userPreferences', userPreferences)]_vars

-----------------------------------------------------------------------------
(* Direct calls of ConversationEngine.updateUserPreferences *)

ListKeys == {"tastePreferences", "ingredientExclusions", "specialGroup"}

\* the extracted records handed to updateUserPreferences: what extractIntent
\* returns for answers of at most MaxExtractedKeys keys, and for a failure
MergeObjects ==
    LET full == [peopleCount : {<<3>>, <<5>>},
                 tastePreferences : {<< <<>> >>, << <<"la">> >>},
                 ingredientExclusions : {<< << <<"yu">> >> >>},
                 specialGroup : {<< <<"kid">> >>},
                 maxCookingTimeMinutes : {<<30>>}]
    IN {[k \in K |-> f[k]] :
            f \in full,
            K \in {S \in SUBSET PreferenceKeys : Cardinality(S) <= MaxExtractedKeys}}

MergeInputs ==
    {ExtractIntent([failed |-> TRUE, object |-> EmptyPreferences])}
    \cup {ExtractIntent([failed |-> FALSE, object |-> o]) : o \in MergeObjects}

\* engine.updateUserPreferences(extracted)
UpdateUserPreferencesCall ==
    /\ \E extracted \in MergeInputs :
          /\ userPreferences' = updateUserPreferences(userPreferences, extracted)
          /\ call' = [op |-> "updateUserPreferences", extracted |-> extracted]
    /\ UNCHANGED <<state, recommendedMenu, confirmedMenu, lastTurn, kbVars, tagger,
                   pending>>

NextMerge == UpdateUserPreferencesCall

SpecMerge == Init /\ [][NextMerge]_vars

\* the extracted record holds a non-empty value for the key
HoldsNonEmpty(extracted, k) ==
    /\ Defined(extracted, k)
    /\ k \in ListKeys => extracted[k][1] # <<>>

\* C6 as stated: after updateUserPreferences merges an extracted record, every
\* key for which the record holds a non-empty value has that value, and every
\* other key (omitted, or empty in the record) has the value held before.
C6_AsStated ==
    [][UpdateUserPreferencesCall =>
         \A k \in PreferenceKeys :
            IF HoldsNonEmpty(call'.extracted, k)
            THEN Get(userPreferences', k) = Get(call'.extracted, k)
            ELSE Get(userPreferences', k) = Get(userPreferences, k)]_vars

-----------------------------------------------------------------------------
(* LLMBasedTagger: texts *)

\* the pieces of text cut at the positions cuts, each cut width characters
\* wide: piece k lies between cut k - 1 and cut k
Pieces(text, cuts, width) ==
    LET before(k) == IF k = 0 THEN 1 - width
                     ELSE CHOOSE i \in cuts : Cardinality({j \in cuts : j < i}) = k - 1
        after(k) == IF k = Cardinality(cuts) + 1 THEN Len(text) + 1
                    ELSE before(k)
    IN [k \in 1..(Cardinality(cuts) + 1) |->
           SubSeq(text, before(k - 1) + width, after(k) - 1)]

\* String.prototype.split(/[...]/): the pieces between the characters of a
\* class, empty pieces kept
SplitChars(text, class) ==
    Pieces(text, {i \in 1..Len(text) : text[i] \in class}, 1)

\* String.prototype.split(separator), for a separator no two occurrences of
\* which can overlap
SplitOn(text, sep) ==
    Pieces(text, {i \in 1..(Len(text) - Len(sep) + 1) :
                     SubSeq(text, i, i + Len(sep) - 1) = sep}, Len(sep))

\* the character class of /[<ideographic full stop>.\\n-]/ in estimateDifficulty:
\* the full stop, the dot, the backslash, the letter n and the hyphen
StepDelimiters == {"ju_hao", ".", "\\", "n", "-"}

\* the separator of split('\\n') in estimateDifficulty: a backslash and an n
LineSeparator == <<"\\", "n">>

ComplexMethods == {"zha", "dun", "men", "kao", "zheng"}

\* estimateDifficulty; the sum is kept in halves so that 0.5 stays an integer,
\* and Math.round(x) is floor(x + 0.5)
estimateDifficulty(recipe) ==
    LET stepsText == RawText(recipe.rawContent, "steps")
        ingredientsText == RawText(recipe.rawContent, "ingredientsAndTools")
        stepCount == Len(SelectSeq(SplitChars(stepsText, StepDelimiters),
                                   LAMBDA t : Len(Trim(t)) > 10))
        hasComplexMethod == \E m \in ComplexMethods : Includes(stepsText, <<m>>)
        ingredientLines == SelectSeq(SplitOn(ingredientsText, LineSeparator),
                                     LAMBDA line : Len(Trim(line)) > 0)
        halves == 2
                  + (IF stepCount > 10 THEN 4 ELSE IF stepCount > 5 THEN 2 ELSE 0)
                  + (IF hasComplexMethod THEN 2 ELSE 0)
                  + (IF Len(ingredientLines) > 15 THEN 2
                     ELSE IF Len(ingredientLines) > 10 THEN 1 ELSE 0)
        rounded == (halves + 1) \div 2
    IN IF rounded > 5 THEN 5 ELSE IF rounded < 1 THEN 1 ELSE rounded

\* tags.x.push(label) under a condition
PushIf(cond, label) == IF cond THEN <<label>> ELSE <<>>

DangerousIngredients == {<<"jiu3">>, <<"ka", "fei">>, <<"sheng">>,
                         <<"ban4", "sheng">>, <<"xue">>}
SpicyKeywords == {<<"la">>, <<"jiao">>, <<"ma">>}

\* fallback tags without the defaults
generateFallbackTags_NoDefaults(recipe) ==
    [taste |-> <<>>, cookingStyle |-> <<>>,
     season |-> <<"chun", "xia", "qiu", "dong">>, suitability |-> <<>>]

\* generateFallbackTags
generateFallbackTags(recipe) ==
    LET dishName == ToLowerCase(recipe.dishName)
        steps == ToLowerCase(RawText(recipe.rawContent, "steps"))
        ingredients == ToLowerCase(RawText(recipe.rawContent, "ingredientsAndTools"))
        allText == dishName \o <<" ">> \o steps \o <<" ">> \o ingredients
        has(t) == Includes(allText, t)
        taste ==
            PushIf(has(<<"la">>) \/ has(<<"jiao">>) \/ has(<<"ma">>), "la")
            \o PushIf(has(<<"suan">>) \/ has(<<"cu">>) \/ has(<<"ning", "meng">>), "suan")
            \o PushIf(has(<<"tian">>) \/ has(<<"tang2">>) \/ has(<<"mi4">>), "tian")
            \o PushIf(has(<<"xian2">>) \/ has(<<"yan">>) \/ has(<<"jiang", "you2">>),
                      "xian2")
            \o PushIf(has(<<"xian">>) \/ has(<<"wei4", "jing">>) \/ has(<<"ji1", "jing">>),
                      "xian")
        cookingStyle ==
            PushIf(has(<<"chao">>), "chao")
            \o PushIf(has(<<"zheng">>), "zheng")
            \o PushIf(has(<<"dun">>) \/ has(<<"wei1">>), "dun")
            \o PushIf(has(<<"zha">>), "zha")
            \o PushIf(has(<<"liang", "ban">>) \/ has(<<"ban">>), "liangban")
            \o PushIf(has(<<"kao">>), "kao")
            \o PushIf(has(<<"shao">>) \/ has(<<"hong", "shao">>), "shao")
            \o PushIf(has(<<"men">>), "men")
            \o PushIf(has(<<"zhu3">>) \/ has(<<"shui", "zhu3">>), "zhu3")
            \o PushIf(has(<<"jian">>), "jian")
            \o PushIf(has(<<"lao">>), "lao")
            \o PushIf(has(<<"cuan">>), "cuan")
        defaultStyle ==
            CASE recipe.category = "soup" -> "zhu3"
              [] recipe.category = "vegetable_dish" -> "chao"
              [] recipe.category = "meat_dish" -> "shao"
              [] OTHER -> "chao"
        hasDangerousIngredients == \E t \in DangerousIngredients : has(t)
        isSpicy == \E t \in SpicyKeywords : has(t)
    IN [taste |-> IF Len(taste) = 0 THEN <<"xiang">> ELSE taste,
        cookingStyle |-> IF Len(cookingStyle) = 0 THEN <<defaultStyle>>
                         ELSE cookingStyle,
        season |-> <<"chun", "xia", "qiu", "dong">>,
        suitability |-> PushIf(~hasDangerousIngredients /\ ~isSpicy, "kid_friendly")
                        \o PushIf(~hasDangerousIngredients, "pregnancy_safe")]

\* { ...rawRecipe, tags, difficulty }
Enrich(rawRecipe, tags, difficulty) ==
    [dishName |-> rawRecipe.dishName,
     sourceFile |-> rawRecipe.sourceFile,
     contentHash |-> rawRecipe.contentHash,
     category |-> rawRecipe.category,
     rawContent |-> rawRecipe.rawContent,
     tags |-> tags,
     difficulty |-> difficulty]

-----------------------------------------------------------------------------
(* LLMBasedTagger: one run of tagRecipesIncremental *)

\* a tagging that gives up when the collaborator fails
tagRecipe_NullOnFailure(rawRecipe, outcome) ==
    IF outcome.failed THEN <<>>
    ELSE << Enrich(rawRecipe, outcome.object, estimateDifficulty(rawRecipe)) >>

\* tagRecipe: <<record>>, or <<>> for null; outcome is the collaborator's
\* failure or the object it returned
tagRecipe(rawRecipe, outcome) ==
    IF outcome.failed
    THEN << Enrich(rawRecipe, generateFallbackTags(rawRecipe),
                   estimateDifficulty(rawRecipe)) >>
    ELSE << Enrich(rawRecipe, outcome.object, estimateDifficulty(rawRecipe)) >>

\* a cache that never hits
CacheHit_Never(existingData, rawRecipe) == FALSE

\* existing && existing.contentHash === rawRecipe.contentHash
CacheHit(existingData, rawRecipe) ==
    /\ rawRecipe.dishName \in DOMAIN existingData
    /\ existingData[rawRecipe.dishName].contentHash = rawRecipe.contentHash

RECURSIVE Repeat(_, _)
Repeat(t, n) == IF n = 0 THEN <<>> ELSE t \o Repeat(t, n - 1)

\* k steps of eleven characters, each closed by a full stop
StepsOf(k) == Repeat([i \in 1..11 |-> "qie"] \o <<"ju_hao">>, k)

\* k ingredient lines, each closed by a backslash and an n
LinesOf(k) == Repeat(<<"cong">> \o LineSeparator, k)

\* k ingredient lines with a line feed between them, as a trimmed section of
\* a recipe file has them
LineFeedLinesOf(k) == Repeat(<<"cong", "LF">>, k - 1) \o <<"cong">>

RawRecipe(name, cat, hash, content) ==
    [dishName |-> name, sourceFile |-> cat, contentHash |-> hash,
     category |-> cat, rawContent |-> content]

NoContent == [k \in {} |-> <<>>]

\* the raw records the batches are drawn from: a dish, the same dish edited,
\* and three more
RawHongShaoRou ==
    RawRecipe(HongShaoRou, "meat_dish", "h1",
              [ingredientsAndTools |-> <<"zhu", "rou">>, steps |-> <<"dun">>])
RawHongShaoRouEdited ==
    RawRecipe(HongShaoRou, "meat_dish", "h2",
              [ingredientsAndTools |-> <<"zhu", "rou", "tang2">>])
RawMiFan == RawRecipe(MiFan, "staple", "h1", NoContent)
RawLaDouFu ==
    RawRecipe(LaDouFu, "vegetable_dish", "h1",
              [ingredientsAndTools |-> <<"dou", "fu">>, steps |-> <<"zha">>])
RawDanTang == RawRecipe(DanTang, "soup", "h1", [steps |-> <<"LF">>])

RawPool == {RawHongShaoRou, RawHongShaoRouEdited, RawMiFan, RawLaDouFu, RawDanTang}

\* the longest batch of the model
MaxBatch == 3

Batches == UNION {[1..n -> RawPool] : n \in 0..MaxBatch}

LLMTags == [taste |-> <<"xian">>, cookingStyle |-> <<>>,
            season |-> <<"dong">>, suitability |-> <<>>]

\* what the tagging collaborator can answer in the model
TagOutcomes == {[failed |-> TRUE, object |-> LLMTags],
                [failed |-> FALSE, object |-> LLMTags]}

\* the record the previous run made of mi fan when its file, with the same
\* content, lay in the directory of another category
MiFanMoved == Enrich(RawRecipe(MiFan, "breakfast", "h1", NoContent), LLMTags, 1)

\* the previous recipes_data.json: none, one with a record the input no
\* longer has, one holding every dish of the pool, one made before a file
\* was moved
ExistingTables ==
    { EmptyData,
      BuildData(<<MiFanMoved>>),
      BuildData(<<Enrich(RawHongShaoRou, LLMTags, 2), Corpus[2]>>),
      BuildData(<<Enrich(RawHongShaoRouEdited, LLMTags, 1),
                  Enrich(RawMiFan, LLMTags, 1),
                  Enrich(RawLaDouFu, LLMTags, 2),
                  Enrich(RawDanTang, LLMTags, 1)>>) }

\* processingConfig.batchSize
BatchSizes == {1, 2}

\* tagRecipesIncremental(rawRecipes, existingData) is called
StartTagging ==
    /\ tagger.pc = "idle"
    /\ \E rawRecipes \in Batches, existingData \in ExistingTables,
          batchSize \in BatchSizes :
          tagger' = [pc |-> "loop", rawRecipes |-> rawRecipes,
                     existingData |-> existingData, batchSize |-> batchSize,
                     i |-> 1, processedRecipes |-> <<>>, apiCallCount |-> 0,
                     log |-> <<>>]
    /\ UNCHANGED <<engineVars, kbVars, call, pending>>

\* an iteration that counts a cache hit as a call
TagOne_CountsCacheHits(t, outcome) ==
    LET rawRecipe == t.rawRecipes[t.i]
    IN IF CacheHit(t.existingData, rawRecipe)
       THEN [t EXCEPT !.processedRecipes =
                          Append(@, t.existingData[rawRecipe.dishName]),
                      !.apiCallCount = @ + 1,
                      !.log = IF (t.apiCallCount + 1) % t.batchSize = 0
                              THEN @ \o <<"cached", "delay">>
                              ELSE Append(@, "cached"),
                      !.i = @ + 1]
       ELSE LET tagged == tagRecipe(rawRecipe, outcome)
                event == IF outcome.failed THEN "fallback" ELSE "tagged"
            IN IF tagged # <<>>
               THEN [t EXCEPT !.processedRecipes = Append(@, tagged[1]),
                              !.apiCallCount = @ + 1,
                              !.log = IF (t.apiCallCount + 1) % t.batchSize = 0
                                      THEN @ \o <<event, "delay">>
                                      ELSE Append(@, event),
                              !.i = @ + 1]
               ELSE [t EXCEPT !.log = Append(@, "dropped"), !.i = @ + 1]

\* one iteration of the loop: the run after it; log records what happened to
\* the record ("cached", "tagged", "fallback", "dropped") and each delay
TagOne(t, outcome) ==
    LET rawRecipe == t.rawRecipes[t.i]
    IN IF CacheHit(t.existingData, rawRecipe)
       THEN [t EXCEPT !.processedRecipes =
                          Append(@, t.existingData[rawRecipe.dishName]),
                      !.log = Append(@, "cached"),
                      !.i = @ + 1]
       ELSE LET tagged == tagRecipe(rawRecipe, outcome)
                event == IF outcome.failed THEN "fallback" ELSE "tagged"
            IN IF tagged # <<>>
               THEN [t EXCEPT !.processedRecipes = Append(@, tagged[1]),
                              !.apiCallCount = @ + 1,
                              !.log = IF (t.apiCallCount + 1) % t.batchSize = 0
                                      THEN @ \o <<event, "delay">>
                                      ELSE Append(@, event),
                              !.i = @ + 1]
               ELSE [t EXCEPT !.log = Append(@, "dropped"), !.i = @ + 1]

TagStep ==
    /\ tagger.pc = "loop"
    /\ tagger.i <= Len(tagger.rawRecipes)
    /\ \E outcome \in TagOutcomes : tagger' = TagOne(tagger, outcome)
    /\ UNCHANGED <<engineVars, kbVars, call, pending>>

\* the loop is over: return processedRecipes
ReturnTagged ==
    /\ tagger.pc = "loop"
    /\ tagger.i > Len(tagger.rawRecipes)
    /\ tagger' = [tagger EXCEPT !.pc = "returned"]
    /\ UNCHANGED <<engineVars, kbVars, call, pending>>

NextTagger == StartTagging \/ TagStep \/ ReturnTagged

\* every awaited call of the loop settles, so the loop goes on
SpecTagger ==
    Init /\ [][NextTagger]_vars /\ WF_vars(TagStep) /\ WF_vars(ReturnTagged)

-----------------------------------------------------------------------------
(* Claims about the tagger, checked under SpecTagger *)

\* what happened to each input record so far, in input order
Kinds(t) == SelectSeq(t.log, LAMBDA e : e # "delay")

CollaboratorCalls(t) == SelectSeq(t.log, LAMBDA e : e \in {"tagged", "fallback"})

\* the j-th raw record has a previous enriched record with an equal fingerprint
Unchanged(t, j) ==
    \E n \in DOMAIN t.existingData :
        /\ n = t.rawRecipes[j].dishName
        /\ t.existingData[n].contentHash = t.rawRecipes[j].contentHash

\* C7: every raw record with an unchanged fingerprint yields exactly its
\* previous enriched record, without a collaborator call for it; a batch whose
\* records are all unchanged makes no collaborator call at all.
C7_CacheCorrectness ==
    tagger.pc # "idle" =>
        /\ \A j \in 1..(tagger.i - 1) :
              Unchanged(tagger, j) =>
                 /\ j <= Len(tagger.processedRecipes)
                 /\ tagger.processedRecipes[j]
                       = tagger.existingData[tagger.rawRecipes[j].dishName]
                 /\ Kinds(tagger)[j] = "cached"
        /\ (/\ tagger.pc = "returned"
            /\ \A j \in 1..Len(tagger.rawRecipes) : Unchanged(tagger, j))
           => CollaboratorCalls(tagger) = <<>> /\ tagger.apiCallCount = 0

\* a run over two or more records, all unchanged, has returned
C7_Witness ==
    /\ tagger.pc = "returned"
    /\ Len(tagger.rawRecipes) >= 2
    /\ \A j \in 1..Len(tagger.rawRecipes) : Unchanged(tagger, j)
    /\ Len(tagger.processedRecipes) = Len(tagger.rawRecipes)

\* the output has one record per input record, in input order, with the
\* identifier of the input, and no identifier the input does not have
OneRecordPerInput(t) ==
    /\ Len(t.processedRecipes) = Len(t.rawRecipes)
    /\ \A j \in 1..Len(t.rawRecipes) :
          t.processedRecipes[j].dishName = t.rawRecipes[j].dishName
    /\ \A n \in DOMAIN t.existingData :
          (\A j \in 1..Len(t.rawRecipes) : t.rawRecipes[j].dishName # n)
             => \A j \in 1..Len(t.processedRecipes) :
                   t.processedRecipes[j].dishName # n

\* C9: whatever the batch and whichever collaborator calls fail, the run
\* returns, and what it returns has one record per input record, in input
\* order and with its identifier; a previous record whose identifier the
\* input does not have is not in the output.
C9_OneRecordPerInput ==
    /\ [](tagger.pc = "returned" => OneRecordPerInput(tagger))
    /\ (tagger.pc = "loop" ~> tagger.pc = "returned")

\* a run with a stale previous record, a cache hit and a failed tagging
C9_Witness ==
    /\ tagger.pc = "returned"
    /\ ZhengYu \in DOMAIN tagger.existingData
    /\ \E j \in 1..Len(tagger.log) : tagger.log[j] = "cached"
    /\ \E j \in 1..Len(tagger.log) : tagger.log[j] = "fallback"
    /\ \E j \in 1..Len(tagger.log) : tagger.log[j] = "tagged"

-----------------------------------------------------------------------------
(* Direct calls of LLMBasedTagger.tagRecipe *)

\* the raw records tagRecipe is called with: every name, category, steps
\* section and ingredients section below, each section present or absent
TagNames == {MiFan, LaDouFu, HongShaoRou}
TagCategories == {"soup", "vegetable_dish", "meat_dish", "staple"}
StepTexts == {<<"LF">>, StepsOf(6) \o <<"zha">>, StepsOf(11) \o <<"dun">>}
IngredientTexts == {LinesOf(11), LinesOf(16), <<"sheng", "jiang">>,
                    LineFeedLinesOf(16)}

TagContents ==
    {NoContent}
    \cup {[steps |-> st] : st \in StepTexts}
    \cup {[ingredientsAndTools |-> ing] : ing \in IngredientTexts}
    \cup {[steps |-> st, ingredientsAndTools |-> ing] :
             st \in StepTexts, ing \in IngredientTexts}

TagInputs ==
    {RawRecipe(name, cat, "h1", content) :
        name \in TagNames, cat \in TagCategories, content \in TagContents}

\* tagger.tagRecipe(rawRecipe), once
TagRecipeCall ==
    /\ call = NoCall
    /\ \E rawRecipe \in TagInputs, outcome \in TagOutcomes :
          call' = [op |-> "tagRecipe", rawRecipe |-> rawRecipe,
                   failed |-> outcome.failed,
                   result |-> tagRecipe(rawRecipe, outcome)]
    /\ UNCHANGED <<engineVars, kbVars, tagger, pending>>

NextTagRecipe == TagRecipeCall

SpecTagRecipe == Init /\ [][NextTagRecipe]_vars

\* C8: when the tagging collaborator fails, tagRecipe returns an enriched
\* record with a non-empty taste set, a non-empty cookingStyle set and an
\* integer difficulty from 1 to 5.
C8_FallbackTotality ==
    call.op = "tagRecipe" /\ call.failed =>
        /\ Len(call.result) = 1
        /\ Len(call.result[1].tags.taste) > 0
        /\ Len(call.result[1].tags.cookingStyle) > 0
        /\ call.result[1].difficulty \in 1..5

\* a failed tagging of a record without any taste keyword, whose difficulty
\* reaches the top of the scale
C8_Witness ==
    /\ call.op = "tagRecipe"
    /\ call.failed
    /\ call.result[1].tags.taste = <<"xiang">>
    /\ call.result[1].difficulty = 5

-----------------------------------------------------------------------------
(* Direct calls of KnowledgeBase.searchRecipes *)

\* the preferences searchRecipes is called with: any of the three keys it
\* reads, each with one of the values below
SearchPreferences ==
    LET full == [tastePreferences : {<< <<>> >>, << <<"ku">> >>, << <<"la">> >>,
                                     << <<"ku", "xian">> >>},
                 specialGroup : {<< <<"kid">> >>, << <<"pregnant">> >>,
                                 << <<"kid", "pregnant">> >>},
                 ingredientExclusions : {<< << <<"x", "O">> >> >>,
                                         << << <<"dou">>, <<"tang2">> >> >>}]
    IN {[k \in K |-> f[k]] :
            f \in full,
            K \in SUBSET {"tastePreferences", "specialGroup", "ingredientExclusions"}}

\* kb.searchRecipes(preferences): ensureLoaded, then the search
SearchRecipesCall ==
    /\ \E preferences \in SearchPreferences, load \in LoadChoices :
          LET kb == Initialize(load, recipesIndex, recipesData, isLoaded)
              found == SearchRecipes(preferences, kb.index, kb.data)
          IN /\ recipesData' = kb.data
             /\ isLoaded' = kb.loaded
             /\ IF kb.threw
                THEN /\ recipesIndex' = kb.index
                     /\ call' = [op |-> "searchRecipes", preferences |-> preferences,
                                 load |-> load,
                                 threw |-> TRUE, index |-> kb.index, result |-> <<>>]
                ELSE /\ recipesIndex' = found.index
                     /\ call' = [op |-> "searchRecipes", preferences |-> preferences,
                                 load |-> load,
                                 threw |-> FALSE, index |-> kb.index,
                                 result |-> found.result]
    /\ UNCHANGED <<engineVars, tagger, pending>>

\* a direct call of getRecommendedCandidates on the knowledge base
GetRecommendedCandidatesCall ==
    /\ \E preferences \in SearchPreferences, load \in LoadChoices :
          LET kb == Initialize(load, recipesIndex, recipesData, isLoaded)
              buckets == GetRecommendedCandidates(preferences, kb.index, kb.data)
          IN /\ recipesData' = kb.data
             /\ isLoaded' = kb.loaded
             /\ IF kb.threw
                THEN /\ recipesIndex' = kb.index
                     /\ call' = [op |-> "getRecommendedCandidates",
                                 preferences |-> preferences, load |-> load,
                                 threw |-> TRUE, index |-> kb.index,
                                 mainDishes |-> <<>>, vegetableDishes |-> <<>>,
                                 soups |-> <<>>]
                ELSE /\ recipesIndex' = buckets.index
                     /\ call' = [op |-> "getRecommendedCandidates",
                                 preferences |-> preferences, load |-> load,
                                 threw |-> FALSE, index |-> kb.index,
                                 mainDishes |-> buckets.mainDishes,
                                 vegetableDishes |-> buckets.vegetableDishes,
                                 soups |-> buckets.soups]
    /\ UNCHANGED <<engineVars, tagger, pending>>

\* a direct call of kb.initialize(), as the command line makes at its start
InitializeCall ==
    /\ \E load \in LoadChoices :
          LET kb == Initialize(load, recipesIndex, recipesData, isLoaded)
          IN /\ recipesIndex' = kb.index
             /\ recipesData' = kb.data
             /\ isLoaded' = kb.loaded
             /\ call' = [op |-> "initialize", load |-> load, threw |-> kb.threw]
    /\ UNCHANGED <<engineVars, tagger, pending>>

NextSearch == SearchRecipesCall \/ GetRecommendedCandidatesCall \/ InitializeCall

SpecSearch == Init /\ [][NextSearch]_vars

\* the preferences without their taste preference
WithoutTaste(preferences) ==
    [k \in (DOMAIN preferences) \ {"tastePreferences"} |-> preferences[k]]

\* the taste tags of a record or index entry intersect the wanted tastes
Intersects(r, wanted) == Range(r.tags.taste) \cap Range(wanted) # {}

\* C10: a search whose non-empty tastePreferences intersect no index entry
\* returns as many records as the same search without a taste preference,
\* which is not zero unless that search is empty too; a search whose
\* tastePreferences intersect some entry returns intersecting records only.
C10_SoftTasteFilter ==
    call.op = "searchRecipes" /\ ~call.threw
       /\ NonEmptyList(call.preferences, "tastePreferences") =>
          LET wanted == call.preferences.tastePreferences[1]
              plain == SearchRecipes(WithoutTaste(call.preferences),
                                     call.index, recipesData).result
          IN IF \A i \in 1..Len(call.index) : ~Intersects(call.index[i], wanted)
             THEN /\ Len(call.result) = Len(plain)
                  /\ Len(plain) > 0 => Len(call.result) > 0
             ELSE \A i \in 1..Len(call.result) : Intersects(call.result[i], wanted)

\* a search for a taste no recipe has returned every recipe
C10_Witness ==
    /\ call.op = "searchRecipes"
    /\ ~call.threw
    /\ call.preferences = [tastePreferences |-> << <<"ku">> >>]
    /\ Len(call.result) = Len(recipesIndex)
    /\ Len(call.result) > 0

\* the preferences without their ingredient exclusions
WithoutExclusions(preferences) ==
    [k \in (DOMAIN preferences) \ {"ingredientExclusions"} |-> preferences[k]]

\* the ingredients text of a record contains, whatever the case, one of the
\* exclusion strings
HasExcluded(r, exclusions) ==
    \E i \in 1..Len(exclusions) :
        Includes(ToLowerCase(RawText(r.rawContent, "ingredientsAndTools")),
                 ToLowerCase(exclusions[i]))

\* C11: with non-empty ingredientExclusions, no record returned by
\* searchRecipes has an ingredients text containing an exclusion string,
\* whatever the case; every candidate without one is returned, and when every
\* candidate contains one the result is empty.
C11_HardExclusion ==
    call.op = "searchRecipes" /\ ~call.threw
       /\ NonEmptyList(call.preferences, "ingredientExclusions") =>
          LET exclusions == call.preferences.ingredientExclusions[1]
              candidates == SearchRecipes(WithoutExclusions(call.preferences),
                                          call.index, recipesData).result
          IN /\ \A i \in 1..Len(call.result) :
                   ~HasExcluded(call.result[i], exclusions)
             /\ call.result
                   = SelectSeq(candidates, LAMBDA r : ~HasExcluded(r, exclusions))
             /\ (\A i \in 1..Len(candidates) : HasExcluded(candidates[i], exclusions))
                   => call.result = <<>>

\* a search whose only candidate contains an exclusion returned nothing
C11_Witness ==
    /\ call.op = "searchRecipes"
    /\ ~call.threw
    /\ call.preferences = [tastePreferences |-> << <<"la">> >>,
                           ingredientExclusions |-> << << <<"dou">>, <<"tang2">> >> >>]
    /\ Len(call.index) > 0
    /\ call.result = <<>>

\* the preferences without their special group
WithoutGroup(preferences) ==
    [k \in (DOMAIN preferences) \ {"specialGroup"} |-> preferences[k]]

\* +2 for kid with kid_friendly, +2 for pregnant with pregnancy_safe
GroupScore(r, group) ==
    (IF "kid" \in Range(group) /\ "kid_friendly" \in Range(r.tags.suitability)
     THEN 2 ELSE 0)
    + (IF "pregnant" \in Range(group)
          /\ "pregnancy_safe" \in Range(r.tags.suitability)
       THEN 2 ELSE 0)

\* where the dish stands in a list of records
PositionIn(records, name) == CHOOSE i \in 1..Len(records) : records[i].dishName = name

\* C12: with a non-empty specialGroup, searchRecipes returns the records of
\* the same search without specialGroup, in descending order of suitability
\* score, records of equal score in the order that search has them.
C12_GroupOnlyReorders ==
    call.op = "searchRecipes" /\ ~call.threw
       /\ NonEmptyList(call.preferences, "specialGroup") =>
          LET group == call.preferences.specialGroup[1]
              plain == SearchRecipes(WithoutGroup(call.preferences),
                                     call.index, recipesData).result
          IN /\ Len(call.result) = Len(plain)
             /\ Range(DishNames(call.result)) = Range(DishNames(plain))
             /\ \A i, j \in 1..Len(call.result) :
                   i < j =>
                     /\ GroupScore(call.result[i], group)
                           >= GroupScore(call.result[j], group)
                     /\ GroupScore(call.result[i], group)
                           = GroupScore(call.result[j], group)
                        => PositionIn(plain, call.result[i].dishName)
                             < PositionIn(plain, call.result[j].dishName)

\* a search for kid and pregnant moved a dish suited to both ahead of the
\* first dish of the index
C12_Witness ==
    /\ call.op = "searchRecipes"
    /\ ~call.threw
    /\ call.preferences = [specialGroup |-> << <<"kid", "pregnant">> >>]
    /\ call.index[1].dishName = HongShaoRou
    /\ call.result[1].dishName = ZhengYu
    /\ Len(call.result) = Len(call.index)

\* every record of the list has one of the categories
AllOfCategory(records, categories) ==
    \A i \in 1..Len(records) : records[i].category \in categories

\* the records of the list stand in the order the search has them
InSearchOrder(records, searched) ==
    \A i, j \in 1..Len(records) :
       i < j => PositionIn(searched, records[i].dishName)
                  < PositionIn(searched, records[j].dishName)

\* C13: the buckets of getRecommendedCandidates are pairwise disjoint; the
\* main bucket holds exactly the searchRecipes results of category meat_dish
\* or aquatic, the vegetable bucket those of vegetable_dish, the soup bucket
\* those of soup, each in search order; a result of any other category is
\* in no bucket.
C13_BucketsPartition ==
    call.op = "getRecommendedCandidates" /\ ~call.threw =>
       LET searched == SearchRecipes(call.preferences, call.index, recipesData).result
           main == Range(DishNames(call.mainDishes))
           vegetables == Range(DishNames(call.vegetableDishes))
           soups == Range(DishNames(call.soups))
           Named(categories) ==
              {searched[i].dishName : i \in
                 {k \in 1..Len(searched) : searched[k].category \in categories}}
       IN /\ main \cap vegetables = {}
          /\ main \cap soups = {}
          /\ vegetables \cap soups = {}
          /\ main = Named({"meat_dish", "aquatic"})
          /\ vegetables = Named({"vegetable_dish"})
          /\ soups = Named({"soup"})
          /\ Len(call.mainDishes) = Cardinality(main)
          /\ Len(call.vegetableDishes) = Cardinality(vegetables)
          /\ Len(call.soups) = Cardinality(soups)
          /\ AllOfCategory(call.mainDishes, {"meat_dish", "aquatic"})
          /\ AllOfCategory(call.vegetableDishes, {"vegetable_dish"})
          /\ AllOfCategory(call.soups, {"soup"})
          /\ InSearchOrder(call.mainDishes, searched)
          /\ InSearchOrder(call.vegetableDishes, searched)
          /\ InSearchOrder(call.soups, searched)
          /\ \A i \in 1..Len(searched) :
                searched[i].category
                   \notin {"meat_dish", "aquatic", "vegetable_dish", "soup"}
                => searched[i].dishName \notin main \cup vegetables \cup soups

\* a call filled all three buckets from a search that also returned a staple
C13_Witness ==
    /\ call.op = "getRecommendedCandidates"
    /\ ~call.threw
    /\ Len(call.mainDishes) = 3
    /\ Len(call.vegetableDishes) = 2
    /\ Len(call.soups) = 1
    /\ \E i \in 1..Len(call.index) : call.index[i].dishName = MiFan
    /\ DOMAIN call.preferences = {"specialGroup"}

-----------------------------------------------------------------------------
(* Direct calls of MenuRecommender.recommendMenu *)

MaxPeople == 6
MaxMenu == 3

\* preferences.peopleCount of the call: omitted, or a number from 0 on
PeoplePreferences ==
    {EmptyPreferences} \cup {[peopleCount |-> <<p>>] : p \in 0..MaxPeople}

\* the candidate buckets handed to recommendMenu
CandidateChoices ==
    [mainDishes : {<<>>, <<ArtifactData[HongShaoRou], ArtifactData[ZhengYu]>>,
                   <<ArtifactData[ZhengYu], ArtifactData[HongShaoRou]>>},
     vegetableDishes : {<<>>, <<ArtifactData[QingCai], ArtifactData[LaDouFu]>>},
     soups : {<<>>, <<ArtifactData[DanTang]>>}]

\* the dish names the collaborator can put in result.object.menu
CollaboratorNames == {HongShaoRou, QingCai, DanTang, Ghost}

\* generateObject throws, or returns a menu of up to MaxMenu items
CollaboratorOutcomes ==
    {[failed |-> TRUE, menu |-> <<>>]}
    \cup {[failed |-> FALSE, menu |-> MenuOf(m)] :
            m \in UNION {[1..n -> CollaboratorNames] : n \in 0..MaxMenu}}

\* one call of recommendMenu; composition is the menuComposition it computes
RecommendMenuCall ==
    /\ call = NoCall
    /\ \E preferences \in PeoplePreferences, candidateDishes \in CandidateChoices,
          outcome \in CollaboratorOutcomes :
          call' = [op |-> "recommendMenu", preferences |-> preferences,
                   candidateDishes |-> candidateDishes,
                   failed |-> outcome.failed, collaboratorMenu |-> outcome.menu,
                   composition |->
                      calculateMenuComposition(PeopleCountOrDefault(preferences)),
                   menu |-> recommendMenu(preferences, candidateDishes, outcome)]
    /\ UNCHANGED <<engineVars, kbVars, tagger, pending>>

NextRecommend == RecommendMenuCall

SpecRecommend == Init /\ [][NextRecommend]_vars

\* the people count of the call is omitted or positive
PositiveOrAbsent(preferences) ==
    "peopleCount" \in DOMAIN preferences => preferences.peopleCount[1] > 0

\* the people count the sizing rule is applied to: 2 when it is omitted
People(preferences) ==
    IF "peopleCount" \in DOMAIN preferences THEN preferences.peopleCount[1] ELSE 2

\* C14: for a positive people count p (2 when omitted) the composition has
\* floor((p+1)/2) vegetable dishes, ceil((p+1)/2) main dishes, one soup when
\* p > 4 and none otherwise; main and vegetable dishes add up to p+1 and the
\* main dishes exceed the vegetable dishes by at most one; p = 3 gives
\* (2, 2, 0) and p = 6 gives (4, 3, 1).
C14_CompositionSizing ==
    call.op = "recommendMenu" /\ PositiveOrAbsent(call.preferences) =>
       LET p == People(call.preferences)
           c == call.composition
       IN /\ 2 * c.vegetableDishes <= p + 1
          /\ p + 1 < 2 * c.vegetableDishes + 2
          /\ 2 * c.mainDishes >= p + 1
          /\ p + 1 > 2 * c.mainDishes - 2
          /\ c.soups = (IF p > 4 THEN 1 ELSE 0)
          /\ c.mainDishes + c.vegetableDishes = p + 1
          /\ c.vegetableDishes <= c.mainDishes
          /\ c.mainDishes <= c.vegetableDishes + 1
          /\ p = 3 => <<c.mainDishes, c.vegetableDishes, c.soups>> = <<2, 2, 0>>
          /\ p = 6 => <<c.mainDishes, c.vegetableDishes, c.soups>> = <<4, 3, 1>>
          /\ ("peopleCount" \notin DOMAIN call.preferences
                => <<c.mainDishes, c.vegetableDishes, c.soups>> = <<2, 1, 0>>)

\* a call for six people computed four main dishes, three vegetable dishes
\* and a soup
C14_Witness ==
    /\ call.op = "recommendMenu"
    /\ call.preferences = [peopleCount |-> <<6>>]
    /\ call.composition.mainDishes = 4
    /\ call.composition.vegetableDishes = 3
    /\ call.composition.soups = 1

\* the dish names of the three candidate buckets of the call
BucketNames(candidateDishes) ==
    Range(DishNames(candidateDishes.mainDishes))
       \cup Range(DishNames(candidateDishes.vegetableDishes))
       \cup Range(DishNames(candidateDishes.soups))

\* C15: every dish name of the menu recommendMenu returns, whether it is the
\* collaborator's menu or the fallback menu, is the name of a dish in one of
\* the three candidate buckets.
C15_MenuWithinBuckets ==
    call.op = "recommendMenu" =>
       \A i \in 1..Len(call.menu) :
          call.menu[i].dishName \in BucketNames(call.candidateDishes)

\* the collaborator named a dish that is in no bucket, and the menu returned
\* is its other two dishes
C15_Witness ==
    /\ call.op = "recommendMenu"
    /\ ~call.failed
    /\ call.collaboratorMenu = MenuOf(<<HongShaoRou, Ghost, QingCai>>)
    /\ call.menu = MenuOf(<<HongShaoRou, QingCai>>)

\* the first n records of a bucket
FirstOf(records, n) ==
    [i \in 1..(IF n < Len(records) THEN n ELSE Len(records)) |-> records[i]]

\* C16: recommendMenu returns the fallback menu when the collaborator fails
\* or fewer of its items name a candidate than the composition's main dishes,
\* vegetable dishes and soups together less one, and returns those items
\* unchanged otherwise; the fallback menu names the first mainCount main
\* candidates, then the first vegetableCount vegetable candidates, then the
\* first soupCount soup candidates.
C16_FallbackExactlyWhen ==
    call.op = "recommendMenu" =>
       LET c == call.composition
           validated ==
              SelectSeq(call.collaboratorMenu,
                 LAMBDA item : item.dishName \in BucketNames(call.candidateDishes))
           fallbackNames ==
              DishNames(FirstOf(call.candidateDishes.mainDishes, c.mainDishes)
                        \o FirstOf(call.candidateDishes.vegetableDishes,
                                   c.vegetableDishes)
                        \o FirstOf(call.candidateDishes.soups, c.soups))
           isFallback ==
              \A i \in 1..Len(call.menu) :
                 call.menu[i].recommendationReason
                    \in {"fallback_meat", "fallback_seafood",
                         "fallback_vegetable", "fallback_soup"}
       IN IF call.failed
             \/ Len(validated) < (c.mainDishes + c.vegetableDishes + c.soups) - 1
          THEN isFallback /\ DishNames(call.menu) = fallbackNames
          ELSE call.menu = validated

\* for three people the collaborator named two candidates and an unknown
\* dish, and the menu returned is the fallback menu
C16_Witness ==
    /\ call.op = "recommendMenu"
    /\ ~call.failed
    /\ call.preferences = [peopleCount |-> <<3>>]
    /\ call.collaboratorMenu = MenuOf(<<HongShaoRou, Ghost, QingCai>>)
    /\ DishNames(call.menu) = <<ZhengYu, HongShaoRou, QingCai, LaDouFu>>

-----------------------------------------------------------------------------
(* Replacing a dish of the proposed menu *)

\* C17: the alternatives computed for a replace request in RECOMMENDING_MENU
\* contain neither the dish being replaced nor a dish of the proposed menu,
\* and are at most five.
C17_AsStated ==
    /\ lastTurn.action = "replace_dish"
    /\ lastTurn.from = "RECOMMENDING_MENU"
    /\ lastTurn.dishToReplace # <<>>
    => /\ lastTurn.dishToReplace \notin Range(lastTurn.alternatives)
       /\ Range(lastTurn.alternatives) \cap Range(DishNames(recommendedMenu)) = {}
       /\ Len(lastTurn.alternatives) <= 5

-----------------------------------------------------------------------------
(* The knowledge base after its load *)

\* C19: once initialize() has succeeded, the index and the data table in
\* memory stay what the load made them through every further initialize()
\* and query, and a query returns what it returns right after the load.
C19_AsStated ==
    isLoaded =>
       /\ recipesIndex = ArtifactIndex
       /\ recipesData = ArtifactData
       /\ call.op = "searchRecipes" /\ ~call.threw =>
             call.result
                = SearchRecipes(call.preferences, ArtifactIndex, ArtifactData).result

-----------------------------------------------------------------------------
(* The front ends: user lines that arrive while a turn is awaited *)

MaxInFlight == 2

\* the lines a user enters in the model (not empty, not an exit word)
Lines == {<<"san", "ge", "ren2">>, QueRen, ChongXinKaiShi}

\* the switch of processUserInput on this.state
HandlerOf(s) ==
    CASE s = "AWAITING_PREFERENCES" -> "handlePreferenceInput"
      [] s = "RECOMMENDING_MENU" -> "handleMenuResponse"
      [] s = "GENERATING_SHOPPING_LIST" -> "handleShoppingListGeneration"
      [] s = "PLANNING_WORKFLOW" -> "handleWorkflowPlanning"
      [] s = "READY_FOR_QUESTIONS" -> "handleQuestionInput"

\* the states a handler may have assigned to this.state when it returns (what
\* a turn does to the other fields is in the turn actions above)
AssignedStates(handler) ==
    CASE handler = "handlePreferenceInput" -> {"RECOMMENDING_MENU"}
      [] handler = "handleMenuResponse" -> {"RECOMMENDING_MENU", "READY_FOR_QUESTIONS"}
      [] handler = "handleQuestionInput" -> {"AWAITING_PREFERENCES"}
      [] OTHER -> {"READY_FOR_QUESTIONS"}

\* processUserInput up to the first await of the handler it dispatches to
StartTurn(frontEnd, userInput, loading) ==
    pending' = [pending EXCEPT !.frontEnd = frontEnd, !.isLoading = loading,
                               !.turns = Append(@, [handler |-> HandlerOf(state),
                                                    userInput |-> userInput])]

\* simple-cli: readline emits a line; the async listener calls
\* processUserInput whether or not an earlier call has returned
CliLine ==
    /\ pending.frontEnd \in {"none", "cli"}
    /\ Len(pending.turns) < MaxInFlight
    /\ \E userInput \in Lines : StartTurn("cli", userInput, FALSE)
    /\ UNCHANGED <<engineVars, kbVars, tagger, call>>

\* ChatInterface.handleSubmit: returns at once while isLoading
InkSubmit ==
    /\ pending.frontEnd \in {"none", "ink"}
    /\ ~pending.isLoading
    /\ Len(pending.turns) < MaxInFlight
    /\ \E userInput \in Lines : StartTurn("ink", userInput, TRUE)
    /\ UNCHANGED <<engineVars, kbVars, tagger, call>>

\* a call of processUserInput returns; handleSubmit's finally clears isLoading
TurnReturns ==
    /\ \E i \in 1..Len(pending.turns) :
          /\ state' \in AssignedStates(pending.turns[i].handler) \cup {state}
          /\ pending' = [pending EXCEPT
                            !.turns = SubSeq(@, 1, i - 1) \o SubSeq(@, i + 1, Len(@)),
                            !.isLoading = FALSE]
    /\ UNCHANGED <<userPreferences, recommendedMenu, confirmedMenu, lastTurn,
                   kbVars, tagger, call>>

NextSession == CliLine \/ InkSubmit \/ TurnReturns

SpecSession == Init /\ [][NextSession]_vars

\* C18: no two turns of a session run at the same time: a call of
\* processUserInput has returned before the next user line starts another.
C18_AsStated == Len(pending.turns) <= 1

-----------------------------------------------------------------------------
(* KnowledgeBase.initialize, step by step *)

MaxLoads == 3

\* who calls initialize(): the caller itself, or a query through ensureLoaded
Callers == {"initialize", "getDishByName", "searchRecipes", "getRecommendedCandidates"}

\* initialize() finds isLoaded false and calls loadData, which starts to
\* read the two artifact files
BeginLoad ==
    /\ ~isLoaded
    /\ Len(pending.loads) < MaxLoads
    /\ \E caller \in Callers :
          pending' = [pending EXCEPT !.loads = Append(@, caller)]
    /\ UNCHANGED <<engineVars, kbVars, tagger, call>>

\* the reads of one loadData settle, and its initialize() returns or throws
FinishLoad ==
    /\ \E i \in 1..Len(pending.loads), outcome \in LoadOutcomes :
          LET kb == Initialize(outcome, recipesIndex, recipesData, FALSE)
          IN /\ recipesIndex' = kb.index
             /\ recipesData' = kb.data
             /\ isLoaded' = (isLoaded \/ kb.loaded)
             /\ pending' = [pending EXCEPT
                   !.loads = SubSeq(@, 1, i - 1) \o SubSeq(@, i + 1, Len(@))]
    /\ UNCHANGED <<engineVars, tagger, call>>

NextLoad == BeginLoad \/ FinishLoad

SpecLoad == Init /\ [][NextLoad]_vars

\* C20: callers of initialize() that arrive while no load has completed
\* share one load: the artifact files are not being read twice.
C20_AsStated == Len(pending.loads) <= 1

-----------------------------------------------------------------------------
(* Artifacts that are missing or do not parse *)

\* the calls of the knowledge base that load it when it is not loaded
LoadingCalls == {"initialize", "searchRecipes", "getRecommendedCandidates"}

-----------------------------------------------------------------------------
(* Direct calls of DatabaseBuilder.buildDatabases *)

MaxRecords == 3

\* the enriched records a list is drawn from: five dishes of the corpus and
\* a second record that carries the name of the first
EnrichedPool ==
    {Corpus[i] : i \in 1..5} \cup {[Corpus[1] EXCEPT !.difficulty = 5]}

\* the lists of enriched records handed to buildDatabases
EnrichedLists == UNION {[1..n -> EnrichedPool] : n \in 0..MaxRecords}

\* one call of buildDatabases: index and data are the contents of the two
\* files it writes
BuildDatabasesCall ==
    /\ call = NoCall
    /\ \E processedRecipes \in EnrichedLists :
          call' = [op |-> "buildDatabases", processedRecipes |-> processedRecipes,
                   index |-> BuildIndex(processedRecipes),
                   data |-> BuildData(processedRecipes)]
    /\ UNCHANGED <<engineVars, kbVars, tagger, pending>>

NextBuild == BuildDatabasesCall

SpecBuild == Init /\ [][NextBuild]_vars

\* C22: the index buildDatabases writes has one entry for each record of the
\* list it was given, in the order of the list, and every dish name of the
\* index is a key of the data table it writes.
C22_IndexCoversInput ==
    call.op = "buildDatabases" =>
       /\ Len(call.index) = Len(call.processedRecipes)
       /\ \A i \in 1..Len(call.index) :
             /\ call.index[i].dishName = call.processedRecipes[i].dishName
             /\ call.index[i].category = call.processedRecipes[i].category
             /\ call.index[i].difficulty = call.processedRecipes[i].difficulty
             /\ call.index[i].tags = call.processedRecipes[i].tags
             /\ call.index[i].dishName \in DOMAIN call.data

\* a list of three records, two of them under one name, gave an index of
\* three entries over a data table of two keys
C22_Witness ==
    /\ call.op = "buildDatabases"
    /\ Len(call.processedRecipes) = 3
    /\ call.processedRecipes[1].dishName = call.processedRecipes[3].dishName
    /\ call.processedRecipes[1] # call.processedRecipes[3]
    /\ Len(call.index) = 3
    /\ Cardinality(DOMAIN call.data) = 2

-----------------------------------------------------------------------------
(* The delays of a tagging run *)

\* how many of the first j entries of the log are taggings that went to the
\* collaborator
TaggingsUpTo(log, j) ==
    Cardinality({k \in 1..j : log[k] \in {"tagged", "fallback"}})

\* C23: in a run with batch size N the log has a delay right after the
\* (k*N)-th tagging that went to the collaborator, for each k >= 1, and
\* nowhere else; a cache hit is followed by no delay and is not counted in
\* apiCallCount.
C23_DelayEveryBatch ==
    tagger.pc \in {"loop", "returned"} =>
       /\ tagger.apiCallCount = TaggingsUpTo(tagger.log, Len(tagger.log))
       /\ \A j \in 1..Len(tagger.log) :
             /\ tagger.log[j] \in {"tagged", "fallback"}
                /\ TaggingsUpTo(tagger.log, j) % tagger.batchSize = 0
                => j < Len(tagger.log) /\ tagger.log[j + 1] = "delay"
             /\ tagger.log[j] = "delay"
                => /\ j > 1
                   /\ tagger.log[j - 1] \in {"tagged", "fallback"}
                   /\ TaggingsUpTo(tagger.log, j - 1) % tagger.batchSize = 0

\* a run with batch size 2 has returned: its second tagging came after a
\* cache hit and is followed by the only delay
C23_Witness ==
    /\ tagger.pc = "returned"
    /\ tagger.batchSize = 2
    /\ \E j \in 1..Len(tagger.log) :
          /\ tagger.log[j] = "delay"
          /\ \E k \in 1..(j - 1) : tagger.log[k] = "cached"
          /\ TaggingsUpTo(tagger.log, j) = 2
    /\ Cardinality({j \in 1..Len(tagger.log) : tagger.log[j] = "delay"}) = 1

-----------------------------------------------------------------------------
(* Confirming a menu set through setRecommendedMenu *)

\* the dish names of the menus handed to setRecommendedMenu
ProposedNames == {HongShaoRou, QingCai, Ghost}

\* setRecommendedMenu(menu), a public method: any menu of up to MaxMenu items
SetRecommendedMenuCall ==
    /\ \E names \in UNION {[1..n -> ProposedNames] : n \in 0..MaxMenu} :
          recommendedMenu' = MenuOf(names)
    /\ state' = "RECOMMENDING_MENU"
    /\ UNCHANGED <<userPreferences, confirmedMenu, lastTurn, kbVars, otherVars>>

NextConfirm == SetRecommendedMenuCall \/ ConfirmTurn \/ InitializeKnowledgeBase

SpecConfirm == Init /\ [][NextConfirm]_vars

\* what a confirm turn leaves behind it
ConfirmedAsResolved ==
    IF lastTurn'.threw
    THEN ~isLoaded' /\ confirmedMenu' = confirmedMenu
    ELSE LET names == DishNames(recommendedMenu)
             known == SelectSeq(names, LAMBDA n : n \in DOMAIN recipesData')
         IN /\ Len(confirmedMenu') = Len(known)
            /\ \A i \in 1..Len(known) :
                  /\ confirmedMenu'[i] = recipesData'[known[i]]
                  /\ confirmedMenu'[i].dishName = known[i]
            /\ lastTurn'.returned = "READY_FOR_QUESTIONS"

\* C24: a confirm turn makes the confirmed set hold, in menu order, the
\* data-table record of each dish name of the proposed menu that the data
\* table has; a name it does not have is left out, and the turn fails only
\* when the knowledge base cannot be loaded.
C24_ConfirmedIsResolvedMenu == [][ConfirmTurn => ConfirmedAsResolved]_vars

\* a menu of a vegetable, an unknown dish and a meat dish was confirmed on a
\* loaded knowledge base: the confirmed set is the two known records
C24_Witness ==
    /\ lastTurn.action = "confirm_menu"
    /\ ~lastTurn.threw
    /\ isLoaded
    /\ DishNames(recommendedMenu) = <<QingCai, Ghost, HongShaoRou>>
    /\ DishNames(confirmedMenu) = <<QingCai, HongShaoRou>>
    /\ state = "READY_FOR_QUESTIONS"

-----------------------------------------------------------------------------
(* Direct calls of ConversationEngine.reset *)

MaxHistory == 2

\* the message getWelcomeMessage builds, as addMessage stores it
WelcomeMessage == [role |-> "assistant", content |-> "welcome"]

\* this.messages when reset() is called: up to MaxHistory messages
Histories ==
    UNION {[1..n -> {[role |-> "user", content |-> "line"], WelcomeMessage}] :
             n \in 0..MaxHistory}

\* a reset that keeps the history and adds the welcome message to it
reset_KeepsHistory(messages) ==
    [state |-> "AWAITING_PREFERENCES", userPreferences |-> EmptyPreferences,
     recommendedMenu |-> <<>>, confirmedMenu |-> <<>>,
     messages |-> Append(messages, WelcomeMessage)]

\* reset(): the fields it assigns; messages is the history it finds
reset(messages) ==
    [state |-> "AWAITING_PREFERENCES", userPreferences |-> EmptyPreferences,
     recommendedMenu |-> <<>>, confirmedMenu |-> <<>>,
     messages |-> Append(<<>>, WelcomeMessage)]

\* engine.reset() is called between two turns
ResetCall ==
    /\ \E messages \in Histories :
          LET r == reset(messages)
          IN /\ state' = r.state
             /\ userPreferences' = r.userPreferences
             /\ recommendedMenu' = r.recommendedMenu
             /\ confirmedMenu' = r.confirmedMenu
             /\ call' = [op |-> "reset", messages |-> r.messages]
    /\ UNCHANGED <<lastTurn, kbVars, tagger, pending>>

NextReset == Next \/ ResetCall

SpecReset == Init /\ [][NextReset]_vars

\* C25: reset() leaves the state AWAITING_PREFERENCES, no preference, an
\* empty proposed menu, an empty confirmed set and a history of the welcome
\* message alone, and does not change the index, the data table or the
\* loaded flag of the knowledge base.
C25_ResetClearsSession ==
    [][ResetCall =>
         /\ state' = "AWAITING_PREFERENCES"
         /\ Cleared(userPreferences')
         /\ recommendedMenu' = <<>>
         /\ confirmedMenu' = <<>>
         /\ call'.messages = <<WelcomeMessage>>
         /\ recipesIndex' = recipesIndex
         /\ recipesData' = recipesData
         /\ isLoaded' = isLoaded]_vars

\* reset() was called on a session whose last turn had confirmed a menu on a
\* loaded knowledge base
C25_Witness ==
    /\ call.op = "reset"
    /\ call.messages = <<WelcomeMessage>>
    /\ lastTurn.action = "confirm_menu"
    /\ lastTurn.returned = "READY_FOR_QUESTIONS"
    /\ state = "AWAITING_PREFERENCES"
    /\ confirmedMenu = <<>>
    /\ isLoaded
    /\ recipesData = ArtifactData

-----------------------------------------------------------------------------
(* Turns that change nothing *)

\* C26: a turn taken in READY_FOR_QUESTIONS on an input that is no reset
\* phrase returns and leaves the state READY_FOR_QUESTIONS, and leaves the
\* preferences, the proposed menu and the confirmed set as they were,
\* whether the input names a confirmed dish or not.
C26_QuestionKeepsSession ==
    [][processUserInput /\ state = "READY_FOR_QUESTIONS" /\ ~lastTurn'.isReset
         => /\ lastTurn'.action \in {"answer_dish", "generic"}
            /\ lastTurn'.returned = "READY_FOR_QUESTIONS"
            /\ state' = "READY_FOR_QUESTIONS"
            /\ userPreferences' = userPreferences
            /\ recommendedMenu' = recommendedMenu
            /\ confirmedMenu' = confirmedMenu]_vars

\* a question that names a confirmed dish was answered, and the session
\* still holds its preferences, its menu and its confirmed set
C26_Witness ==
    /\ lastTurn.from = "READY_FOR_QUESTIONS"
    /\ lastTurn.action = "answer_dish"
    /\ state = "READY_FOR_QUESTIONS"
    /\ Len(confirmedMenu) > 0
    /\ Len(recommendedMenu) > 0
    /\ HasPeopleCount(userPreferences)

-----------------------------------------------------------------------------
(* A planning collaborator that fails *)

\* the confirmed records together are too long for detailed planning
TooLongForDetail(menu) ==
    \E i \in 1..Len(menu) : menu[i].dishName = FoTiaoQiang

\* C27: in a confirm turn planWorkflow returns a text whatever the planning
\* collaborator does: the templated workflow when the collaborator failed,
\* in detailed mode and in macro mode alike, and the collaborator's text
\* otherwise; the turn ends in READY_FOR_QUESTIONS in each case.
C27_PlanningNeverFails ==
    lastTurn.action = "confirm_menu" /\ ~lastTurn.threw =>
       /\ lastTurn.planFailed => lastTurn.plan = "fallback"
       /\ ~lastTurn.planFailed =>
             lastTurn.plan = (IF TooLongForDetail(confirmedMenu)
                              THEN "macro" ELSE "detailed")
       /\ lastTurn.returned = "READY_FOR_QUESTIONS"
       /\ state = "READY_FOR_QUESTIONS"

\* the collaborator failed on a menu long enough for macro mode, and the
\* confirm turn ended in READY_FOR_QUESTIONS with the templated workflow
C27_Witness ==
    /\ lastTurn.action = "confirm_menu"
    /\ lastTurn.planFailed
    /\ lastTurn.plan = "fallback"
    /\ TooLongForDetail(confirmedMenu)
    /\ state = "READY_FOR_QUESTIONS"

\* C28: a turn taken in RECOMMENDING_MENU and classified as a replacement or
\* as not understood returns and leaves the state RECOMMENDING_MENU, and
\* leaves the proposed menu, the preferences and the confirmed set as they
\* were; the reply to a replacement lists the first alternatives, three at
\* most.
C28_ReplaceKeepsSession ==
    [][/\ processUserInput
       /\ state = "RECOMMENDING_MENU"
       /\ lastTurn'.action \in {"replace_dish", "ask_question", "unknown"}
       => /\ lastTurn'.returned = "RECOMMENDING_MENU"
          /\ state' = "RECOMMENDING_MENU"
          /\ recommendedMenu' = recommendedMenu
          /\ userPreferences' = userPreferences
          /\ confirmedMenu' = confirmedMenu
          /\ Len(lastTurn'.presented) <= 3
          /\ Len(lastTurn'.presented) <= Len(lastTurn'.alternatives)
          /\ \A i \in 1..Len(lastTurn'.presented) :
                lastTurn'.presented[i] = lastTurn'.alternatives[i]]_vars

\* a replacement found five alternatives and its reply lists three of them
C28_Witness ==
    /\ lastTurn.from = "RECOMMENDING_MENU"
    /\ lastTurn.action = "replace_dish"
    /\ Len(lastTurn.alternatives) = 5
    /\ Len(lastTurn.presented) = 3
    /\ state = "RECOMMENDING_MENU"
    /\ Len(recommendedMenu) > 0

-----------------------------------------------------------------------------
(* Restating preferences while a menu is proposed *)

\* C29: a turn taken in RECOMMENDING_MENU and classified as a change of
\* preferences merges what was extracted, composes a menu again and ends in
\* RECOMMENDING_MENU with the newly composed menu as the proposed menu.
C29_AsStated ==
    [][ModifyTurn =>
         /\ lastTurn'.returned = "RECOMMENDING_MENU"
         /\ lastTurn'.trace = <<"RECOMMENDING_MENU">>
         /\ state' = "RECOMMENDING_MENU"
         /\ ComposedMenuStored]_vars

\* ---------------------------------------------------------------------------
\* Role composition of a returned menu
\* ---------------------------------------------------------------------------

\* how many items of a menu name a record of the bucket
ItemsFrom(menu, bucket) ==
    Cardinality({i \in 1..Len(menu) :
                   menu[i].dishName \in Range(DishNames(bucket))})

\* every bucket holds at least as many records as the composition asks of it
BucketsSuffice(candidateDishes, composition) ==
    /\ Len(candidateDishes.mainDishes) >= composition.mainDishes
    /\ Len(candidateDishes.vegetableDishes) >= composition.vegetableDishes
    /\ Len(candidateDishes.soups) >= composition.soups

\* C30: the menu recommendMenu returns has exactly as many items from the main
\* bucket as the composition's main dishes, as many from the vegetable bucket
\* as its vegetable dishes and as many from the soup bucket as its soups, the
\* composition being the one computed for the people count of the preferences;
\* read here for the calls whose buckets can supply that composition.
C30_AsStated ==
    /\ call.op = "recommendMenu"
    /\ BucketsSuffice(call.candidateDishes, call.composition)
    => /\ ItemsFrom(call.menu, call.candidateDishes.mainDishes)
             = call.composition.mainDishes
       /\ ItemsFrom(call.menu, call.candidateDishes.vegetableDishes)
             = call.composition.vegetableDishes
       /\ ItemsFrom(call.menu, call.candidateDishes.soups)
             = call.composition.soups

-----------------------------------------------------------------------------
(* How often the artifact files are read *)

\* the step is a call that finds the knowledge base not loaded, so that its
\* initialize() runs loadData and reads the two artifact files
ReadsArtifacts == ~isLoaded /\ call'.op \in LoadingCalls

\* a call has been made before; the first call of an instance always finds
\* isLoaded false, so the artifact files have been read at least once
ArtifactsRead == call.op \in LoadingCalls

\* C31: over any sequence of initialize() and query calls on one knowledge
\* base the artifact files are read at most once, also when an earlier load
\* failed: no call reads them after an earlier call has.
C31_AsStated == [][ReadsArtifacts => ~ArtifactsRead]_vars

-----------------------------------------------------------------------------
(* Suitability flags of the fallback tags *)

\* the text generateFallbackTags searches: name, steps and ingredients
FallbackText(recipe) ==
    ToLowerCase(recipe.dishName) \o <<" ">>
    \o ToLowerCase(RawText(recipe.rawContent, "steps")) \o <<" ">>
    \o ToLowerCase(RawText(recipe.rawContent, "ingredientsAndTools"))

HasRiskKeyword(recipe) ==
    \E t \in DangerousIngredients : Includes(FallbackText(recipe), t)

HasSpiceKeyword(recipe) ==
    \E t \in SpicyKeywords : Includes(FallbackText(recipe), t)

\* C32: the fallback tags carry kid_friendly or pregnancy_safe only when the
\* text of the recipe holds no risk keyword and no spice keyword; a recipe
\* with a spice keyword gets neither flag.
C32_AsStated ==
    call.op = "tagRecipe" /\ call.failed =>
       (HasRiskKeyword(call.rawRecipe) \/ HasSpiceKeyword(call.rawRecipe)
          => call.result[1].tags.suitability = <<>>)

-----------------------------------------------------------------------------
(* The difficulty estimate *)

\* the sentence and line delimiters steps are cut at: the full stop, the dot,
\* the line feed and the hyphen
SentenceDelimiters == {"ju_hao", ".", "LF", "-"}

\* the steps of a text: its segments of more than ten characters
StepCountOf(stepsText) ==
    Len(SelectSeq(SplitChars(stepsText, SentenceDelimiters),
                  LAMBDA t : Len(Trim(t)) > 10))

\* the lines of a text that are not blank
LineCountOf(ingredientsText) ==
    Len(SelectSeq(SplitChars(ingredientsText, {"LF"}),
                  LAMBDA line : Len(Trim(line)) > 0))

\* C33: estimateDifficulty returns round(1 + s + c + i) clamped to 1..5, where
\* s is 2 for more than 10 steps, 1 for more than 5 and 0 otherwise, c is 1
\* when the steps text holds a complex cooking method and 0 otherwise, and i
\* is 1 for more than 15 ingredient lines, 0.5 for more than 10 and 0
\* otherwise; the result is an integer from 1 to 5. (Counted in halves.)
C33_AsStated ==
    call.op = "tagRecipe" =>
       LET stepsText == RawText(call.rawRecipe.rawContent, "steps")
           ingredientsText == RawText(call.rawRecipe.rawContent, "ingredientsAndTools")
           s == IF StepCountOf(stepsText) > 10 THEN 4
                ELSE IF StepCountOf(stepsText) > 5 THEN 2 ELSE 0
           c == IF \E m \in ComplexMethods : Includes(stepsText, <<m>>)
                THEN 2 ELSE 0
           i == IF LineCountOf(ingredientsText) > 15 THEN 2
                ELSE IF LineCountOf(ingredientsText) > 10 THEN 1 ELSE 0
           rounded == (2 + s + c + i + 1) \div 2
           clamped == IF rounded > 5 THEN 5 ELSE IF rounded < 1 THEN 1 ELSE rounded
       IN /\ call.result[1].difficulty = clamped
          /\ call.result[1].difficulty \in 1..5

-----------------------------------------------------------------------------
(* Lists with two records under one name *)

\* two records of the list carry the same dish name
HasDuplicateNames(E) ==
    \E i, j \in 1..Len(E) : i < j /\ E[i].dishName = E[j].dishName

\* C34: when the list given to buildDatabases holds two records with the same
\* dish name, the build still produces both tables, the data table maps each
\* name to the last record of the list that carries it, and the index has one
\* entry for every record of the list.
C34_LastWriteWins ==
    call.op = "buildDatabases" /\ HasDuplicateNames(call.processedRecipes) =>
       LET E == call.processedRecipes
       IN /\ Len(call.index) = Len(E)
          /\ DOMAIN call.data = {E[i].dishName : i \in 1..Len(E)}
          /\ \A i \in 1..Len(E) :
                (\A j \in (i + 1)..Len(E) : E[j].dishName # E[i].dishName)
                   => call.data[E[i].dishName] = E[i]

\* the same name came first with difficulty 5 and last with the difficulty of
\* the corpus, and the data table holds the record that came last
C34_Witness ==
    /\ call.op = "buildDatabases"
    /\ Len(call.processedRecipes) = 3
    /\ call.processedRecipes[1] = [Corpus[1] EXCEPT !.difficulty = 5]
    /\ call.processedRecipes[3] = Corpus[1]
    /\ call.processedRecipes[2].dishName # Corpus[1].dishName
    /\ call.data[Corpus[1].dishName] = Corpus[1]
    /\ Len(call.index) = 3

-----------------------------------------------------------------------------
(* The state a turn reports and the state the engine holds *)

\* C35: after every completed call of processUserInput, whatever the dialogue
\* state and the classification of the input, the state the call returns is
\* the state getCurrentState() reports.
C35_AsStated == [][processUserInput => lastTurn'.returned = state']_vars

-----------------------------------------------------------------------------
(* The transition table *)

\* validTransitions of canTransitionTo
ValidTransitions(s) ==
    CASE s = "AWAITING_PREFERENCES" -> {"RECOMMENDING_MENU"}
      [] s = "RECOMMENDING_MENU" -> {"GENERATING_SHOPPING_LIST", "AWAITING_PREFERENCES"}
      [] s = "GENERATING_SHOPPING_LIST" -> {"PLANNING_WORKFLOW", "RECOMMENDING_MENU"}
      [] s = "PLANNING_WORKFLOW" -> {"READY_FOR_QUESTIONS", "GENERATING_SHOPPING_LIST"}
      [] s = "READY_FOR_QUESTIONS" ->
            {"RECOMMENDING_MENU", "PLANNING_WORKFLOW", "AWAITING_PREFERENCES"}
      [] OTHER -> {}

\* the values this.state went through during a turn, the first being the
\* one the turn started in
StatesOfTurn(turn) == <<turn.from>> \o turn.trace

\* C36: every change of the stored dialogue state made during a call of
\* processUserInput goes from a state s to a state the transition table of
\* canTransitionTo lists as allowed from s.
C36_AsStated ==
    lastTurn.from # "none" =>
       LET visited == StatesOfTurn(lastTurn)
       IN \A k \in 1..(Len(visited) - 1) :
             visited[k + 1] # visited[k]
                => visited[k + 1] \in ValidTransitions(visited[k])

-----------------------------------------------------------------------------
(* Where the session rests between turns *)

RestingStates == {"AWAITING_PREFERENCES", "RECOMMENDING_MENU", "READY_FOR_QUESTIONS"}

\* C37: between turns the stored state is never GENERATING_SHOPPING_LIST or
\* PLANNING_WORKFLOW: after every completed call of processUserInput it is
\* AWAITING_PREFERENCES, RECOMMENDING_MENU or READY_FOR_QUESTIONS, and the
\* state the call reports is one of these too.
C37_RestsOutsideTransientStates ==
    /\ state \in RestingStates
    /\ lastTurn.from # "none" =>
          /\ lastTurn.from \in RestingStates
          /\ lastTurn.returned \in RestingStates

\* a confirmation went through GENERATING_SHOPPING_LIST with the planner's
\* own plan and the session rests in READY_FOR_QUESTIONS
C37_Witness ==
    /\ lastTurn.action = "confirm_menu"
    /\ lastTurn.trace = <<"GENERATING_SHOPPING_LIST", "READY_FOR_QUESTIONS">>
    /\ ~lastTurn.planFailed
    /\ ~lastTurn.threw
    /\ state = "READY_FOR_QUESTIONS"
    /\ Len(confirmedMenu) > 0

-----------------------------------------------------------------------------
(* What a search leaves of the index *)

\* C38: searchRecipes only reads the knowledge base: after a search, whatever
\* its preferences, the index in memory holds the entries it held when the
\* search began, in the same order, so that the same search made again
\* returns the same records in the same order.
C38_AsStated ==
    call.op = "searchRecipes" /\ ~call.threw =>
       /\ recipesIndex = call.index
       /\ SearchRecipes(call.preferences, recipesIndex, recipesData).result
             = call.result

-----------------------------------------------------------------------------
(* The raw fields of the records a tagging run returns *)

RawFields == {"dishName", "contentHash", "category", "sourceFile", "rawContent"}

\* C39: every record tagRecipesIncremental returns, reused from the previous
\* data or newly tagged, agrees with the raw record at the same position of
\* the input on the dish name, the content hash, the category, the source
\* file and the sections.
C39_AsStated ==
    tagger.pc = "returned" =>
       /\ Len(tagger.processedRecipes) = Len(tagger.rawRecipes)
       /\ \A j \in 1..Len(tagger.processedRecipes) :
             \A f \in RawFields :
                tagger.processedRecipes[j][f] = tagger.rawRecipes[j][f]

-----------------------------------------------------------------------------
(* Dishes named twice in a menu *)

\* no dish name occurs twice among the records of the three buckets
UniqueCandidates(candidateDishes) ==
    LET all == DishNames(candidateDishes.mainDishes)
               \o DishNames(candidateDishes.vegetableDishes)
               \o DishNames(candidateDishes.soups)
    IN \A i, j \in 1..Len(all) : all[i] = all[j] => i = j

\* C40: when no dish name occurs twice in the candidate buckets, the menu
\* recommendMenu returns names no dish twice, whether it is the collaborator's
\* menu or the fallback menu.
C40_AsStated ==
    call.op = "recommendMenu" /\ UniqueCandidates(call.candidateDishes) =>
       \A i, j \in 1..Len(call.menu) :
          call.menu[i].dishName = call.menu[j].dishName => i = j

=============================================================================
